---- MODULE Spec2Model ----
(***************************************************************************)
(* A model of the product-search and EPD risk-screening service:           *)
(*   rule_engine.py    evaluate_product, _is_absolute_url                  *)
(*   search_engine.py  SearchEngine.semantic_search, _passes_filters,      *)
(*                     llm_refine_results, search, chat / stream_chat      *)
(*   product_indexer.py  load_products, generate_embeddings, id lookups    *)
(*   app.py            the /api/search and /api/chat handlers,             *)
(*                     init_search_system                                  *)
(*   epd_api.py        create_scan, _detect_cert_state,                    *)
(*                     _find_product_by_id                                 *)
(*                                                                         *)
(* Python values are tagged records [t |-> tag, v |-> payload]; a Python   *)
(* str is a sequence of one-character strings, so that strip(), lower()    *)
(* and startswith() are computed character by character.  Similarity       *)
(* scores are integers in hundredths (0.3 is 30).                          *)
(***************************************************************************)
EXTENDS Integers, Sequences, FiniteSets, TLC

VARIABLES
    product,        \* rule engine: the product mapping handed to evaluate_product
    evalResult,     \* rule engine: outcome of the last evaluate_product call
    evalCalls,      \* rule engine: number of calls made on this mapping
    fltProduct,     \* _passes_filters: the product argument
    fltFilters,     \* _passes_filters: the filters argument
    fltResult,      \* _passes_filters: "idle" before the call, then the boolean returned
    products,       \* indexer.products, the catalog
    searchReq,      \* semantic_search: arguments of the call and the similarities computed
    searchOut,      \* semantic_search: "idle" before the call, then its outcome
    candidates,     \* llm_refine_results: the products argument (semantic results)
    refineReq,      \* llm_refine_results: whether self.client exists and what the provider does
    refineOut,      \* llm_refine_results: "idle" before the call, then its outcome
    embeddings,     \* indexer.embeddings: None, or one vector per position
    filter_indexes, \* indexer.filter_indexes
    cache_file,     \* the embeddings cache file on disk
    indexer_client, \* indexer.client exists
    gen,            \* generate_embeddings: position in the call and its locals
    loaded,         \* load_products: calls made and the outcome of the last
    lookup,         \* get_product_by_id / get_products_by_ids: last call and result
    chatCtx,        \* chat / stream_chat: the query, the history and the products list
    env,            \* the process: search_engine, the clients and the embeddings exist
    request,        \* the request being served
    pc,             \* where the request handler is
    semantic,       \* semantic_results of search(), products of stream_chat
    calls,          \* provider calls issued for the request, and which one failed
    response,       \* the response of /api/search
    events,         \* the events /api/chat has sent
    indexer,        \* app.indexer: 0 for None, or the ProductIndexer object it names
    search_engine,  \* app.search_engine: 0 for None, or the indexer object it holds
    indexer_objects,\* the ProductIndexer objects constructed so far
    handlers,       \* init_search_system: where each request handler is in it
    scan            \* create_scan: the request and what it persisted and answered

ruleVars == <<product, evalResult, evalCalls>>

filterVars == <<fltProduct, fltFilters, fltResult>>

searchVars == <<products, searchReq, searchOut>>

refineVars == <<candidates, refineReq, refineOut>>

indexVars == <<embeddings, filter_indexes, cache_file, indexer_client, gen, loaded, lookup>>

\* the variables of the indexer and of the request handlers
requestVars == <<env, request, pc, semantic, calls, response, events>>

\* the module globals of app.py and the handlers initialising them
initVars == <<indexer, search_engine, indexer_objects, handlers>>

serviceVars == <<indexVars, chatCtx, requestVars, initVars, scan>>

vars == <<product, evalResult, evalCalls, fltProduct, fltFilters, fltResult,
          products, searchReq, searchOut, candidates, refineReq, refineOut,
          embeddings, filter_indexes, cache_file, indexer_client, gen, loaded, lookup,
          chatCtx, env, request, pc, semantic, calls, response, events,
          indexer, search_engine, indexer_objects, handlers, scan>>

(***************************************************************************)
(* Python values                                                           *)
(***************************************************************************)
PyNone == [t |-> "none", v |-> 0]

PyStr(s) == [t |-> "str", v |-> s]

PyInt(n) == [t |-> "int", v |-> n]

\* characters removed by str.strip() that occur in the modelled inputs
Whitespace == {" ", "\t"}

\* bool(value): None, "" and 0 are falsy
Truthy(x) ==
    CASE x.t = "none" -> FALSE
      [] x.t = "str"  -> Len(x.v) > 0
      [] x.t = "int"  -> x.v # 0

\* `x or None`
OrNone(x) == IF Truthy(x) THEN x ELSE PyNone

RECURSIVE LStrip(_)
LStrip(s) ==
    IF s = <<>> THEN <<>>
    ELSE IF Head(s) \in Whitespace THEN LStrip(Tail(s)) ELSE s

RECURSIVE RStrip(_)
RStrip(s) ==
    IF s = <<>> THEN <<>>
    ELSE IF s[Len(s)] \in Whitespace THEN RStrip(SubSeq(s, 1, Len(s) - 1)) ELSE s

\* str.strip()
Strip(s) == RStrip(LStrip(s))

UpperLetters == <<"A", "B", "C", "D", "E", "F", "G", "H", "I", "J", "K", "L", "M", "N", "O", "P", "Q", "R", "S", "T", "U", "V", "W", "X", "Y", "Z">>

LowerLetters == <<"a", "b", "c", "d", "e", "f", "g", "h", "i", "j", "k", "l", "m", "n", "o", "p", "q", "r", "s", "t", "u", "v", "w", "x", "y", "z">>

LowerChar(c) ==
    IF \E i \in 1..Len(UpperLetters) : UpperLetters[i] = c
    THEN LowerLetters[CHOOSE i \in 1..Len(UpperLetters) : UpperLetters[i] = c]
    ELSE c

\* str.lower()
Lower(s) == [i \in 1..Len(s) |-> LowerChar(s[i])]

\* str.startswith(prefix)
StartsWith(s, prefix) ==
    /\ Len(s) >= Len(prefix)
    /\ SubSeq(s, 1, Len(prefix)) = prefix

DigitChar(d) ==
    CASE d = 0 -> "0" [] d = 1 -> "1" [] d = 2 -> "2" [] d = 3 -> "3"
      [] d = 4 -> "4" [] d = 5 -> "5" [] d = 6 -> "6" [] d = 7 -> "7"
      [] d = 8 -> "8" [] d = 9 -> "9"

RECURSIVE StrOfNat(_)
StrOfNat(n) ==
    IF n < 10 THEN <<DigitChar(n)>>
    ELSE Append(StrOfNat(n \div 10), DigitChar(n % 10))

\* str(value) for the values the model holds
PyStrOf(x) ==
    CASE x.t = "str"  -> x.v
      [] x.t = "int"  -> StrOfNat(x.v)
      [] x.t = "none" -> <<"N", "o", "n", "e">>

(***************************************************************************)
(* rule_engine.py                                                          *)
(***************************************************************************)
HttpPrefix == <<"h", "t", "t", "p", ":", "/", "/">>

HttpsPrefix == <<"h", "t", "t", "p", "s", ":", "/", "/">>

MissingLink == "Missing EPD file link"

RelativeNoDate == "EPD link is relative and issue date is missing"

RelativePath == "EPD link is a relative path and may be inaccessible"

NoIssueDate == "EPD issue date is missing; validity cannot be verified"

Accessible == "EPD link is accessible; please verify the issue date manually"

ManualAdvisory == "Please manually verify the validity period of all EPDs"

\* faulty variant: the scheme test without the strip()
is_absolute_url_nostrip(url) ==
    LET lowered == Lower(url)
    IN  StartsWith(lowered, HttpPrefix) \/ StartsWith(lowered, HttpsPrefix)

\* _is_absolute_url(url), for url a str
_is_absolute_url(url) ==
    LET lowered == Lower(Strip(url))
    IN  StartsWith(lowered, HttpPrefix) \/ StartsWith(lowered, HttpsPrefix)

\* the outcome of a call: exc = "none" and the returned triple, or the
\* exception that left the function; product is the mapping after the call
Returned(risk, reasons, advisories, p) ==
    [exc |-> "none", risk_level |-> risk, reasons |-> reasons,
     advisories |-> advisories, product |-> p]

Raised(e, p) ==
    [exc |-> e, risk_level |-> "", reasons |-> <<>>, advisories |-> <<>>,
     product |-> p]

\* dict.get(key): None for an absent key
Get(field) == IF field.t = "absent" THEN PyNone ELSE field

\* faulty variant: the existence test without the whitespace-only case
epd_missing_nostrip(epd_url) == ~Truthy(epd_url)

\* the Step 1 condition: not epd_url or (isinstance(epd_url, str) and not epd_url.strip())
epd_missing(epd_url) ==
    \/ ~Truthy(epd_url)
    \/ (epd_url.t = "str" /\ ~Truthy(PyStr(Strip(epd_url.v))))

\* has_issue_date = bool(epd_issue_date and str(epd_issue_date).strip())
has_issue_date(epd_issue_date) ==
    /\ Truthy(epd_issue_date)
    /\ Truthy(PyStr(Strip(PyStrOf(epd_issue_date))))

\* faulty variant: a relative link without an issue date collects the reasons
\* of both findings, and the missing link carries no advisory
evaluate_fields_accumulating(epd_url, epd_issue_date, p) ==
    IF epd_missing(epd_url)
    THEN Returned("Red", <<MissingLink>>, <<>>, p)
    ELSE IF epd_url.t # "str"
    THEN Raised("AttributeError", p)
    ELSE
        LET is_abs == _is_absolute_url(epd_url.v)
            has_date == has_issue_date(epd_issue_date)
        IN  IF ~is_abs /\ ~has_date
            THEN Returned("Yellow", <<RelativePath, NoIssueDate>>, <<ManualAdvisory>>, p)
            ELSE IF ~is_abs
            THEN Returned("Yellow", <<RelativePath>>, <<ManualAdvisory>>, p)
            ELSE IF ~has_date
            THEN Returned("Yellow", <<NoIssueDate>>, <<ManualAdvisory>>, p)
            ELSE Returned("Green", <<Accessible>>, <<ManualAdvisory>>, p)

\* the body of evaluate_product on the two fields read from the mapping p
evaluate_fields(epd_url, epd_issue_date, p) ==
    IF epd_missing(epd_url)
    THEN Returned("Red", <<MissingLink>>, <<ManualAdvisory>>, p)
    ELSE IF epd_url.t # "str"
    THEN \* url.strip() on a value that is not a str
         Raised("AttributeError", p)
    ELSE
        LET is_abs == _is_absolute_url(epd_url.v)
            has_date == has_issue_date(epd_issue_date)
        IN  IF ~is_abs /\ ~has_date
            THEN Returned("Yellow", <<RelativeNoDate>>, <<ManualAdvisory>>, p)
            ELSE IF ~is_abs
            THEN Returned("Yellow", <<RelativePath>>, <<ManualAdvisory>>, p)
            ELSE IF ~has_date
            THEN Returned("Yellow", <<NoIssueDate>>, <<ManualAdvisory>>, p)
            ELSE Returned("Green", <<Accessible>>, <<ManualAdvisory>>, p)

\* faulty variant: the normalised fields are stored back into the caller's mapping
evaluate_product_writeback(p) ==
    LET epd_url == OrNone(Get(p.epd_url))
        epd_issue_date == OrNone(Get(p.epd_issue_date))
    IN  evaluate_fields(epd_url, epd_issue_date,
                        [epd_url |-> epd_url, epd_issue_date |-> epd_issue_date])

\* evaluate_product(product): reads the two fields, writes nothing
evaluate_product(p) ==
    LET epd_url == OrNone(Get(p.epd_url))
        epd_issue_date == OrNone(Get(p.epd_issue_date))
    IN  evaluate_fields(epd_url, epd_issue_date, p)

(***************************************************************************)
(* search_engine.py                                                        *)
(***************************************************************************)
TOP_K_SEMANTIC == 30

TOP_K_FINAL == 15

\* Config.SIMILARITY_THRESHOLD = 0.3, in hundredths
SIMILARITY_THRESHOLD == 30

\* value in list
In(x, list) == \E i \in 1..Len(list) : list[i] = x

\* [c.get('category_name') for c in product.get('product_categories', [])]
product_cats(p) ==
    [i \in 1..Len(p.product_categories) |-> p.product_categories[i].category_name]

\* [c.get('certification') for c in product.get('certifications', [])]
product_certs(p) ==
    [i \in 1..Len(p.certifications) |-> p.certifications[i].certification]

\* any(x in requested for x in names)
AnyIn(names, requested) == \E i \in 1..Len(names) : In(names[i], requested)

\* faulty variant: a product passes when any one supplied filter accepts it
passes_filters_any(p, filters) ==
    \/ filters.categories = <<>> /\ filters.manufacturers = <<>>
       /\ filters.certifications = <<>> /\ ~filters.has_certifications
       /\ ~filters.has_carbon_data
    \/ Len(filters.categories) > 0 /\ AnyIn(product_cats(p), filters.categories)
    \/ Len(filters.manufacturers) > 0 /\ In(p.manufacturer_name, filters.manufacturers)
    \/ Len(filters.certifications) > 0 /\ AnyIn(product_certs(p), filters.certifications)
    \/ filters.has_certifications /\ Len(p.certifications) > 0
    \/ filters.has_carbon_data /\ Truthy(Get(p.net_carbon_emissions))

\* SearchEngine._passes_filters(product, filters); an absent filter key and
\* an empty list are both the empty sequence, an absent flag is FALSE
_passes_filters(p, filters) ==
    IF Len(filters.categories) > 0
       /\ ~AnyIn(product_cats(p), filters.categories)
    THEN FALSE
    ELSE IF Len(filters.manufacturers) > 0
       /\ ~In(p.manufacturer_name, filters.manufacturers)
    THEN FALSE
    ELSE IF Len(filters.certifications) > 0
       /\ ~AnyIn(product_certs(p), filters.certifications)
    THEN FALSE
    ELSE IF filters.has_certifications /\ ~(Len(p.certifications) > 0)
    THEN FALSE
    ELSE IF filters.has_carbon_data /\ ~Truthy(Get(p.net_carbon_emissions))
    THEN FALSE
    ELSE TRUE

\* similarities.append((i, similarity)) for every catalog position
enumerate_similarities(sims) ==
    [i \in 1..Len(sims) |-> [idx |-> i, similarity |-> sims[i]]]

\* insert x behind every entry that is at least as similar (the sort is stable)
RECURSIVE InsertDescending(_, _)
InsertDescending(x, sorted) ==
    IF sorted = <<>> THEN <<x>>
    ELSE IF Head(sorted).similarity >= x.similarity
         THEN <<Head(sorted)>> \o InsertDescending(x, Tail(sorted))
         ELSE <<x>> \o sorted

RECURSIVE InsertAscending(_, _)
InsertAscending(x, sorted) ==
    IF sorted = <<>> THEN <<x>>
    ELSE IF Head(sorted).similarity <= x.similarity
         THEN <<Head(sorted)>> \o InsertAscending(x, Tail(sorted))
         ELSE <<x>> \o sorted

\* faulty variant: the sort without reverse=True
RECURSIVE sort_ascending(_)
sort_ascending(similarities) ==
    IF similarities = <<>> THEN <<>>
    ELSE InsertAscending(similarities[Len(similarities)],
             sort_ascending(SubSeq(similarities, 1, Len(similarities) - 1)))

\* similarities.sort(key=lambda x: x[1], reverse=True)
RECURSIVE sort_by_similarity(_)
sort_by_similarity(similarities) ==
    IF similarities = <<>> THEN <<>>
    ELSE InsertDescending(similarities[Len(similarities)],
             sort_by_similarity(SubSeq(similarities, 1, Len(similarities) - 1)))

\* filters is None or {}
NoFilters ==
    [categories |-> <<>>, manufacturers |-> <<>>, certifications |-> <<>>,
     has_certifications |-> FALSE, has_carbon_data |-> FALSE]

\* product.copy() with product_copy['similarity_score'] = similarity
scored_copy(p, similarity) ==
    [id |-> p.id, product_categories |-> p.product_categories,
     manufacturer_name |-> p.manufacturer_name,
     certifications |-> p.certifications,
     net_carbon_emissions |-> p.net_carbon_emissions,
     similarity_score |-> similarity]

\* every entry at or above the threshold that the filters accept, no break
RECURSIVE keep_eligible(_, _, _)
keep_eligible(similarities, catalog, filters) ==
    IF similarities = <<>> THEN <<>>
    ELSE LET idx == Head(similarities).idx
             similarity == Head(similarities).similarity
             rest == keep_eligible(Tail(similarities), catalog, filters)
         IN  IF similarity < SIMILARITY_THRESHOLD THEN rest
             ELSE IF filters # NoFilters /\ ~_passes_filters(catalog[idx], filters)
             THEN rest
             ELSE <<scored_copy(catalog[idx], similarity)>> \o rest

\* faulty variant: the sorted list is cut to top_k before the filters are applied
collect_truncate_first(similarities, catalog, filters, top_k, filtered_products) ==
    filtered_products \o
    keep_eligible(SubSeq(similarities, 1,
                         IF top_k < Len(similarities) THEN top_k ELSE Len(similarities)),
                  catalog, filters)

\* the loop over the sorted similarities: skip below the threshold, skip
\* what the filters reject, append a scored copy, break at top_k
RECURSIVE collect(_, _, _, _, _)
collect(similarities, catalog, filters, top_k, filtered_products) ==
    IF similarities = <<>> THEN filtered_products
    ELSE LET idx == Head(similarities).idx
             similarity == Head(similarities).similarity
             rest == Tail(similarities)
         IN  IF similarity < SIMILARITY_THRESHOLD
             THEN collect(rest, catalog, filters, top_k, filtered_products)
             ELSE IF filters # NoFilters /\ ~_passes_filters(catalog[idx], filters)
             THEN collect(rest, catalog, filters, top_k, filtered_products)
             ELSE LET appended == Append(filtered_products,
                                         scored_copy(catalog[idx], similarity))
                  IN  IF Len(appended) >= top_k THEN appended
                      ELSE collect(rest, catalog, filters, top_k, appended)

SearchReturned(results) == [exc |-> "none", results |-> results]

SearchRaised(e) == [exc |-> e, results |-> <<>>]

\* SearchEngine.semantic_search(query, top_k, filters); sims[i] is
\* cosine_similarity(query_embedding, indexer.embeddings[i]); provider is
\* "no_client" when self.client is None, "embed_fails" when the embeddings
\* call raises, "ok" otherwise
semantic_search(catalog, sims, top_k_arg, filters, provider) ==
    LET top_k == IF Truthy(top_k_arg) THEN top_k_arg.v ELSE TOP_K_SEMANTIC
    IN  IF provider = "no_client" THEN SearchRaised("ValueError")
        ELSE IF provider = "embed_fails" THEN SearchRaised("APIError")
        ELSE SearchReturned(
                 collect(sort_by_similarity(enumerate_similarities(sims)),
                         catalog, filters, top_k, <<>>))

(***************************************************************************)
(* The provider's reply to the refinement prompt.  The message content is  *)
(* a sequence of tokens: the fence ```, the word json, whitespace, prose,  *)
(* or one JSON value.                                                      *)
(***************************************************************************)
JNull == [t |-> "null", items |-> <<>>]

JArray(items) == [t |-> "array", items |-> items]

JObject == [t |-> "object", items |-> <<>>]

JNumber == [t |-> "number", items |-> <<>>]

Fence == [k |-> "fence", v |-> JNull]

JsonWord == [k |-> "json_word", v |-> JNull]

Space == [k |-> "space", v |-> JNull]

Prose == [k |-> "prose", v |-> JNull]

JsonValue(j) == [k |-> "value", v |-> j]

RECURSIVE LStripTokens(_)
LStripTokens(c) ==
    IF c = <<>> THEN <<>>
    ELSE IF Head(c).k = "space" THEN LStripTokens(Tail(c)) ELSE c

RECURSIVE RStripTokens(_)
RStripTokens(c) ==
    IF c = <<>> THEN <<>>
    ELSE IF c[Len(c)].k = "space" THEN RStripTokens(SubSeq(c, 1, Len(c) - 1)) ELSE c

\* content.strip()
StripTokens(c) == RStripTokens(LStripTokens(c))

\* position of the first fence at or after position i, 0 if there is none
RECURSIVE NextFence(_, _)
NextFence(c, i) ==
    IF i > Len(c) THEN 0
    ELSE IF c[i].k = "fence" THEN i ELSE NextFence(c, i + 1)

\* content.split("```")[1], for content that starts with the fence
second_part(c) ==
    LET close == NextFence(c, 2)
    IN  IF close = 0 THEN SubSeq(c, 2, Len(c)) ELSE SubSeq(c, 2, close - 1)

\* the unwrapping of a markdown code fence around the JSON payload
extract_json(content) ==
    IF content # <<>> /\ Head(content).k = "fence"
    THEN LET part == second_part(content)
             unworded == IF part # <<>> /\ Head(part).k = "json_word"
                         THEN Tail(part) ELSE part
         IN  StripTokens(unworded)
    ELSE content

\* json.loads(content): the value, or JSONDecodeError unless the text is
\* one JSON value with nothing but whitespace around it
json_loads(content) ==
    LET text == StripTokens(content)
    IN  IF Len(text) = 1 /\ text[1].k = "value"
        THEN [ok |-> TRUE, value |-> text[1].v]
        ELSE [ok |-> FALSE, value |-> JNull]

\* rec.get(key, default)
GetOr(field, default) == IF field.t = "absent" THEN default ELSE field

\* product_map[product_id].copy() with the three llm_ fields set
refined_copy(p, rec) ==
    [id |-> p.id, product_categories |-> p.product_categories,
     manufacturer_name |-> p.manufacturer_name,
     certifications |-> p.certifications,
     net_carbon_emissions |-> p.net_carbon_emissions,
     similarity_score |-> p.similarity_score,
     llm_rank |-> GetOr(rec.rank, PyInt(0)),
     llm_relevance |-> GetOr(rec.relevance_score, PyInt(0)),
     llm_explanation |-> GetOr(rec.explanation, PyStr(<<>>))]

\* product_map = {p['id']: p for p in products}: the last product with the id
RECURSIVE product_map_get(_, _)
product_map_get(list, product_id) ==
    IF list[Len(list)].id = product_id THEN list[Len(list)]
    ELSE product_map_get(SubSeq(list, 1, Len(list) - 1), product_id)

\* the loop over the recommendations: a mapped copy per known id, a warning
\* for an unknown id; an item that is not an object or has no product_id
\* raises out of the loop
RECURSIVE map_recommendations(_, _, _)
map_recommendations(recs, list, refined_products) ==
    IF recs = <<>> THEN [exc |-> "none", refined |-> refined_products]
    ELSE LET rec == Head(recs)
         IN  IF rec.t # "object" THEN [exc |-> "TypeError", refined |-> <<>>]
             ELSE IF rec.product_id.t = "absent"
             THEN [exc |-> "KeyError", refined |-> <<>>]
             ELSE IF \E i \in 1..Len(list) : list[i].id = rec.product_id
             THEN map_recommendations(Tail(recs), list,
                      Append(refined_products,
                             refined_copy(product_map_get(list, rec.product_id), rec)))
             ELSE map_recommendations(Tail(recs), list, refined_products)

\* products[:Config.TOP_K_FINAL]
first_top_k_final(list) ==
    SubSeq(list, 1, IF Len(list) < TOP_K_FINAL THEN Len(list) ELSE TOP_K_FINAL)

RefineReturned(results, path) == [exc |-> "none", results |-> results, path |-> path]

\* faulty variant: no fallback when nothing was mapped
finish_no_fallback(refined_products, list) ==
    RefineReturned(first_top_k_final(refined_products), "refined")

\* faulty variant: the refined list is returned whole
finish_no_slice(refined_products, list) ==
    IF refined_products = <<>>
    THEN RefineReturned(first_top_k_final(list), "fallback")
    ELSE RefineReturned(refined_products, "refined")

\* the end of the try block: fall back when no product was mapped, else
\* return refined_products[:Config.TOP_K_FINAL]
finish_refinement(refined_products, list) ==
    IF refined_products = <<>>
    THEN RefineReturned(first_top_k_final(list), "fallback")
    ELSE RefineReturned(first_top_k_final(refined_products), "refined")

\* SearchEngine.llm_refine_results(query, products); client is whether
\* self.client exists; reply.kind is "raise" when the completion call raises,
\* "no_content" when message.content is None, "content" otherwise
llm_refine_results(list, client, reply) ==
    IF list = <<>> THEN RefineReturned(<<>>, "empty")
    ELSE IF ~client THEN RefineReturned(first_top_k_final(list), "fallback")
    ELSE IF reply.kind = "raise" \/ reply.kind = "no_content"
    THEN \* except Exception
         RefineReturned(first_top_k_final(list), "fallback")
    ELSE LET content == extract_json(StripTokens(reply.tokens))
             recommendations == json_loads(content)
         IN  IF ~recommendations.ok
             THEN \* except json.JSONDecodeError
                  RefineReturned(first_top_k_final(list), "fallback")
             ELSE IF recommendations.value.t \in {"number", "null"}
             THEN \* iterating a value that is not iterable: except Exception
                  RefineReturned(first_top_k_final(list), "fallback")
             ELSE LET mapped == map_recommendations(recommendations.value.items,
                                                    list, <<>>)
                  IN  IF mapped.exc # "none"
                      THEN \* except Exception
                           RefineReturned(first_top_k_final(list), "fallback")
                      ELSE finish_refinement(mapped.refined, list)

(***************************************************************************)
(* Inputs of the rule engine                                               *)
(***************************************************************************)
\* calls made on one mapping
MaxCalls == 2

PyAbsent == [t |-> "absent", v |-> 0]

UrlBodies ==
    { <<>>,
      <<"h", "t", "t", "p", ":", "/", "/", "x">>,
      <<"h", "t", "t", "p", "s", ":", "/", "/", "x">>,
      <<"H", "T", "T", "P", ":", "/", "/", "x">>,
      <<"H", "t", "t", "p", "S", ":", "/", "/", "x">>,
      <<"h", "t", "t", "p", ":", "/", "x">>,
      <<"x", "/", "h", "t", "t", "p", ":", "/", "/">>,
      <<"p", "/", "x">>,
      <<"h", "t", "t", "p", " ", ":", "/", "/", "x">> }

Pads == { <<>>, <<" ">>, <<"\t", " ">> }

UrlValues ==
    { PyStr(l \o b \o r) : l \in Pads, b \in UrlBodies, r \in Pads }
    \cup { PyAbsent, PyNone, PyInt(0), PyInt(7) }

DateBodies == { <<>>, <<"2", "0", "2", "4">> }

DateValues ==
    { PyStr(l \o b \o r) : l \in Pads, b \in DateBodies, r \in Pads }
    \cup { PyAbsent, PyNone, PyInt(0), PyInt(2024) }

RuleProducts == [epd_url : UrlValues, epd_issue_date : DateValues]

NoResult == Raised("unset", [epd_url |-> PyAbsent, epd_issue_date |-> PyAbsent])

(***************************************************************************)
(* Inputs of _passes_filters and semantic_search                           *)
(***************************************************************************)
\* Python None where a name is expected
NONE == "<None>"

Category(name) == [category_name |-> name]

Certification(name) == [certification |-> name]

CategoryLists ==
    { <<>>, <<Category("Flooring")>>, <<Category("Insulation")>>,
      <<Category("Flooring"), Category("Insulation")>> }

ManufacturerNames == { NONE, "Acme", "Bolt" }

CertificationLists ==
    { <<>>, <<Certification("EPD")>>, <<Certification("FSC")>>,
      <<Certification("EPD"), Certification("FSC")>> }

CarbonValues ==
    { PyAbsent, PyNone, PyInt(0), PyInt(5), PyStr(<<>>), PyStr(<<"5">>) }

FilterProducts ==
    [id : {PyInt(1)}, product_categories : CategoryLists,
     manufacturer_name : ManufacturerNames, certifications : CertificationLists,
     net_carbon_emissions : CarbonValues]

FilterSpace ==
    [categories : { <<>>, <<"Flooring">>, <<"Insulation", "Roofing">> },
     manufacturers : { <<>>, <<"Acme">>, <<"Acme", "Bolt">> },
     certifications : { <<>>, <<"EPD">>, <<"FSC", "LEED">> },
     has_certifications : BOOLEAN, has_carbon_data : BOOLEAN]

\* products in the catalog
MaxCatalog == 3

\* the attribute combinations of the catalog's products
Kind(cats, manufacturer, certs, carbon) ==
    [product_categories |-> cats, manufacturer_name |-> manufacturer,
     certifications |-> certs, net_carbon_emissions |-> carbon]

KindSeq ==
    << Kind(<<Category("Flooring")>>, "Acme", <<Certification("EPD")>>, PyInt(5)),
       Kind(<<Category("Insulation")>>, "Bolt", <<>>, PyInt(0)),
       Kind(<<Category("Flooring"), Category("Insulation")>>, "Bolt",
            <<Certification("FSC")>>, PyNone) >>

ProductKinds == { KindSeq[i] : i \in 1..Len(KindSeq) }

\* a catalog: the i-th product has id i
Catalogs ==
    UNION { { [i \in 1..n |->
                 [id |-> PyInt(i),
                  product_categories |-> k[i].product_categories,
                  manufacturer_name |-> k[i].manufacturer_name,
                  certifications |-> k[i].certifications,
                  net_carbon_emissions |-> k[i].net_carbon_emissions]]
              : k \in [1..n -> ProductKinds] } : n \in 0..MaxCatalog }

\* cosine similarities in hundredths: below, at and above the threshold
Scores == { 20, 30, 40 }

TopKArgs == { PyNone, PyInt(1), PyInt(2) }

SearchFilters ==
    { NoFilters,
      [NoFilters EXCEPT !.categories = <<"Flooring">>],
      [NoFilters EXCEPT !.manufacturers = <<"Acme", "Bolt">>],
      [NoFilters EXCEPT !.categories = <<"Insulation", "Roofing">>,
                        !.has_certifications = TRUE] }

Providers == { "ok", "no_client", "embed_fails" }

(***************************************************************************)
(* Inputs of llm_refine_results                                            *)
(***************************************************************************)
\* candidates handed to the refiner
MaxCandidates == 17

\* recommendations in a reply
MaxRecs == 17

\* the i-th candidate: catalog product i with its similarity, most similar first
Candidate(i) ==
    LET k == KindSeq[(i % Len(KindSeq)) + 1]
    IN  [id |-> PyInt(i), product_categories |-> k.product_categories,
         manufacturer_name |-> k.manufacturer_name,
         certifications |-> k.certifications,
         net_carbon_emissions |-> k.net_carbon_emissions,
         similarity_score |-> 95 - i]

CandidateLists == { [i \in 1..n |-> Candidate(i)] : n \in 0..MaxCandidates }

Rec(product_id, rank) ==
    [t |-> "object", product_id |-> product_id, rank |-> PyInt(rank),
     relevance_score |-> PyInt(90), explanation |-> PyStr(<<"o", "k">>)]

BareRec(product_id) ==
    [t |-> "object", product_id |-> product_id, rank |-> PyAbsent,
     relevance_score |-> PyAbsent, explanation |-> PyAbsent]

NumberItem ==
    [t |-> "number", product_id |-> PyAbsent, rank |-> PyAbsent,
     relevance_score |-> PyAbsent, explanation |-> PyAbsent]

\* the arrays a provider may answer with: ids of candidates in reverse order
\* (ids beyond the candidate list are invented), ids as strings, one id
\* repeated, invented ids only, objects with product_id alone, and arrays
\* whose last item has no product_id or is a number
RecArrays ==
    UNION { { [i \in 1..m |-> Rec(PyInt(m + 1 - i), i)],
              [i \in 1..m |-> Rec(PyStr(StrOfNat(i)), i)],
              [i \in 1..m |-> Rec(PyInt(1), i)],
              [i \in 1..m |-> Rec(PyInt(1000 + i), i)],
              [i \in 1..m |-> BareRec(PyInt(i))],
              [i \in 1..m |-> IF i = m THEN BareRec(PyAbsent)
                              ELSE Rec(PyInt(m + 1 - i), i)],
              [i \in 1..m |-> IF i = m THEN NumberItem
                              ELSE Rec(PyInt(m + 1 - i), i)] } : m \in 0..MaxRecs }

Payloads == { JArray(a) : a \in RecArrays } \cup { JObject, JNumber, JNull }

\* the texts a provider may wrap a payload in
Wrappings(j) ==
    { <<JsonValue(j)>>,
      <<Space, JsonValue(j), Space>>,
      <<Fence, JsonWord, Space, JsonValue(j), Space, Fence>>,
      <<Fence, Space, JsonValue(j), Fence>>,
      <<Fence, JsonWord, JsonValue(j)>>,
      <<Fence, JsonWord, JsonValue(j), Fence, Prose>>,
      <<Prose, JsonValue(j)>>,
      <<JsonValue(j), Prose>>,
      <<Prose, Fence, JsonWord, JsonValue(j), Fence>>,
      <<Fence, Prose, Fence, JsonValue(j)>>,
      <<Fence>>,
      <<>> }

NoReply == [kind |-> "none", tokens |-> <<>>]

Replies ==
    { [kind |-> "raise", tokens |-> <<>>], [kind |-> "no_content", tokens |-> <<>>] }
    \cup { [kind |-> "content", tokens |-> w] : w \in UNION { Wrappings(j) : j \in Payloads } }

(***************************************************************************)
(* product_indexer.py.  An embedding vector is modelled by the text the    *)
(* provider computed it from; a lookup that returns None returns <<>>, one *)
(* that returns a product returns <<product>>.                             *)
(***************************************************************************)
CACHE_EMBEDDINGS == TRUE

\* batch_size = 100
batch_size == 100

\* self.embeddings = None
NoEmbeddings == [set |-> FALSE, vectors |-> <<>>]

SomeEmbeddings(vectors) == [set |-> TRUE, vectors |-> vectors]

\* os.path.exists(cache_file) is false
NoCacheFile == [exists |-> FALSE, embeddings |-> <<>>, product_count |-> 0]

\* pickle.dump({'embeddings': ..., 'product_count': ...})
CacheFile(vectors, count) ==
    [exists |-> TRUE, embeddings |-> vectors, product_count |-> count]

\* filter_indexes as ProductIndexer.__init__ creates it (price_ranges is
\* never written and is left out); a missing key is the empty bucket
BucketNames == { "Flooring", "Insulation", "Acme", "Bolt" }

EmptyIndexes ==
    [categories |-> [name \in BucketNames |-> <<>>],
     manufacturers |-> [name \in BucketNames |-> <<>>],
     certifications |-> {}]

\* the (cat_name, product['id']) pairs the two nested loops of
\* _build_filter_indexes visit over list[lo..hi], in loop order
RECURSIVE category_entries(_, _, _)
category_entries(list, lo, hi) ==
    IF lo > hi THEN <<>>
    ELSE IF lo = hi
    THEN [k \in 1..Len(list[lo].product_categories) |->
             [name |-> list[lo].product_categories[k].category_name,
              id |-> list[lo].id]]
    ELSE LET mid == (lo + hi) \div 2
         IN  category_entries(list, lo, mid) \o category_entries(list, mid + 1, hi)

\* the (manufacturer, product['id']) pairs the loop visits, in loop order
manufacturer_entries(list) ==
    [i \in 1..Len(list) |-> [name |-> list[i].manufacturer_name, id |-> list[i].id]]

\* if name: ...[name].append(product['id']), for every pair in order; the
\* bucket is created when the name is new and extended when it exists
append_entries(buckets, entries) ==
    [name \in BucketNames |->
        LET mine == SelectSeq(entries, LAMBDA e : e.name # NONE /\ e.name = name)
        IN  buckets[name] \o [k \in 1..Len(mine) |-> mine[k].id]]

\* self.filter_indexes['certifications'].add(cert_name) for every truthy name
certification_names(list) ==
    { n \in UNION { { list[i].certifications[k].certification :
                        k \in 1..Len(list[i].certifications) } : i \in 1..Len(list) } :
        n # NONE }

\* _build_filter_indexes: one pass over self.products, adding to the
\* indexes as they are
_build_filter_indexes(indexes, list) ==
    [categories |->
         append_entries(indexes.categories, category_entries(list, 1, Len(list))),
     manufacturers |-> append_entries(indexes.manufacturers, manufacturer_entries(list)),
     certifications |-> indexes.certifications \cup certification_names(list)]

\* get_product_embedding_text(product), of the fields the model holds
get_product_embedding_text(p) ==
    <<p.manufacturer_name, product_cats(p), product_certs(p)>>

\* [item.embedding for item in response.data] for one batch
batch_embeddings(batch) ==
    [k \in 1..Len(batch) |-> get_product_embedding_text(batch[k])]

\* self.products[i:i+batch_size], i counted from 0
batch_at(list, i) ==
    SubSeq(list, i + 1, IF i + batch_size < Len(list) THEN i + batch_size ELSE Len(list))

\* faulty variant: the vectors received so far are kept when a chunk fails
embeddings_partial_on_failure(current, embeddings_list) == SomeEmbeddings(embeddings_list)

\* self.embeddings after embeddings.create raised inside the loop
embeddings_after_failure(current, embeddings_list) == current

\* get_product_by_id: the first product whose id == product_id, or None
get_product_by_id(list, product_id) ==
    LET hits == { i \in 1..Len(list) : list[i].id = product_id }
    IN  IF hits = {} THEN <<>>
        ELSE <<list[CHOOSE i \in hits : \A j \in hits : i <= j]>>

\* [p for p in self.products if p['id'] in set(product_ids)]
get_products_by_ids(list, product_ids) ==
    SelectSeq(list, LAMBDA p : In(p.id, product_ids))

(***************************************************************************)
(* Inputs of the product indexer                                           *)
(***************************************************************************)
\* load_products calls on one indexer
MaxLoads == 2

\* embedding batches the largest catalog file needs
MaxChunks == 2

\* a catalog file of n products: version "A" stores numeric ids, version
\* "B" stores the ids as strings and other attributes at each position
CatalogFile(n, version) ==
    [i \in 1..n |->
        LET k == KindSeq[((i + (IF version = "A" THEN 0 ELSE 1)) % Len(KindSeq)) + 1]
        IN  [id |-> IF version = "A" THEN PyInt(i) ELSE PyStr(StrOfNat(i)),
             product_categories |-> k.product_categories,
             manufacturer_name |-> k.manufacturer_name,
             certifications |-> k.certifications,
             net_carbon_emissions |-> k.net_carbon_emissions]]

CatalogFiles ==
    { CatalogFile(0, "A"), CatalogFile(2, "A"), CatalogFile(2, "B"),
      CatalogFile((MaxChunks - 1) * batch_size + 1, "A") }

\* ids asked for: present and absent, in numeric and in string form
LookupIds == { PyInt(1), PyStr(<<"1">>), PyInt(2), PyStr(<<"2">>), PyInt(7) }

LookupIdLists ==
    { <<>>, <<PyInt(1)>>, <<PyStr(<<"1">>)>>, <<PyInt(2), PyInt(1)>>,
      <<PyStr(<<"2">>), PyInt(1), PyInt(7)>> }

GenIdle(outcome) ==
    [pc |-> "idle", embeddings_list |-> <<>>, i |-> 0, requested |-> <<>>,
     outcome |-> outcome]

NoLookup == [kind |-> "none", ids |-> <<>>, result |-> <<>>]

(***************************************************************************)
(* search_engine.py, chat and stream_chat: the candidate list handed to    *)
(* the generation step.  A message is [role, content], content a str.      *)
(***************************************************************************)
\* max_products=10
MAX_PRODUCTS == 10

Digits == {"0", "1", "2", "3", "4", "5", "6", "7", "8", "9"}

DigitValue(c) ==
    CASE c = "0" -> 0 [] c = "1" -> 1 [] c = "2" -> 2 [] c = "3" -> 3
      [] c = "4" -> 4 [] c = "5" -> 5 [] c = "6" -> 6 [] c = "7" -> 7
      [] c = "8" -> 8 [] c = "9" -> 9

\* int(id_str) of a str of digits
RECURSIVE NatOfStr(_)
NatOfStr(s) ==
    IF s = <<>> THEN 0
    ELSE 10 * NatOfStr(SubSeq(s, 1, Len(s) - 1)) + DigitValue(s[Len(s)])

\* the first position at or after pos whose character is not in chars
RECURSIVE SkipWhile(_, _, _)
SkipWhile(s, pos, chars) ==
    IF pos <= Len(s) /\ s[pos] \in chars THEN SkipWhile(s, pos + 1, chars) ELSE pos

IdOpen == <<"(", "I", "D", ":">>

\* a match of \(ID:\s*(\d+)\) starting at pos
match_id_at(s, pos) ==
    LET digits_from == SkipWhile(s, pos + Len(IdOpen), Whitespace)
        digits_to == SkipWhile(s, digits_from, Digits)
        ok == /\ pos + Len(IdOpen) - 1 <= Len(s)
              /\ SubSeq(s, pos, pos + Len(IdOpen) - 1) = IdOpen
              /\ digits_to > digits_from
              /\ digits_to <= Len(s)
              /\ s[digits_to] = ")"
    IN  [ok |-> ok,
         id |-> IF ok THEN NatOfStr(SubSeq(s, digits_from, digits_to - 1)) ELSE 0,
         next |-> digits_to + 1]

\* re.findall(r'\(ID:\s*(\d+)\)', content) from pos on, converted with int()
RECURSIVE find_ids(_, _)
find_ids(content, pos) ==
    IF pos > Len(content) THEN {}
    ELSE LET m == match_id_at(content, pos)
         IN  IF m.ok THEN {m.id} \cup find_ids(content, m.next)
             ELSE find_ids(content, pos + 1)

\* faulty variant: every turn of the history is read
all_turns(chat_history) == chat_history

\* chat_history[-6:]
last_turns(chat_history) ==
    SubSeq(chat_history, IF Len(chat_history) > 6 THEN Len(chat_history) - 5 ELSE 1,
           Len(chat_history))

\* if msg.get('role') == 'assistant': the ids found in its content
ids_of_message(msg) ==
    IF msg.role = "assistant" THEN find_ids(msg.content, 1) ELSE {}

\* previously_mentioned_ids after the loop over chat_history[-6:]
previously_mentioned_ids(chat_history) ==
    LET turns == last_turns(chat_history)
    IN  UNION { ids_of_message(turns[k]) : k \in 1..Len(turns) }

follow_up_keywords ==
    << <<"p", "r", "i", "c", "i", "n", "g">>,
       <<"p", "r", "i", "c", "e">>,
       <<"c", "o", "s", "t">>,
       <<"b", "a", "l", "l", "p", "a", "r", "k">>,
       <<"t", "e", "l", "l", " ", "m", "e", " ", "m", "o", "r", "e">>,
       <<"c", "o", "m", "p", "a", "r", "e">>,
       <<"d", "i", "f", "f", "e", "r", "e", "n", "c", "e">>,
       <<"w", "h", "i", "c", "h", " ", "o", "n", "e">>,
       <<"s", "u", "g", "g", "e", "s", "t", "i", "o", "n", "s">>,
       <<"r", "e", "c", "o", "m", "m", "e", "n", "d", "a", "t", "i", "o", "n", "s">>,
       <<"y", "o", "u", " ", "m", "e", "n", "t", "i", "o", "n", "e", "d">>,
       <<"y", "o", "u", " ", "s", "u", "g", "g", "e", "s", "t", "e", "d">>,
       <<"a", "b", "o", "v", "e">>,
       <<"t", "h", "e", "s", "e">>,
       <<"t", "h", "o", "s", "e">> >>

\* keyword in text
Contains(text, keyword) ==
    \E i \in 1..(Len(text) - Len(keyword) + 1) :
        SubSeq(text, i, i + Len(keyword) - 1) = keyword

\* any(keyword in query.lower() for keyword in follow_up_keywords)
is_follow_up(query) ==
    \E k \in 1..Len(follow_up_keywords) : Contains(Lower(query), follow_up_keywords[k])

\* p['id'] in {q['id'] for q in list}
IdIn(p, list) == \E k \in 1..Len(list) : list[k].id = p.id

Reverse(list) == [k \in 1..Len(list) |-> list[Len(list) + 1 - k]]

Prefix(list, n) == SubSeq(list, 1, IF n < Len(list) THEN n ELSE Len(list))

\* faulty variant: the earlier products are appended after the fresh results
merge_previous_appended(list, previous_products, max_products) ==
    Prefix(list \o SelectSeq(previous_products, LAMBDA p : ~IdIn(p, list)), max_products)

\* for prev_prod in previous_products: if its id is not among the ids of the
\* fresh results, products.insert(0, prev_prod); then products[:max_products]
merge_previous(list, previous_products, max_products) ==
    Prefix(Reverse(SelectSeq(previous_products, LAMBDA p : ~IdIn(p, list))) \o list,
           max_products)

\* the products list of chat / stream_chat when the prompt is built:
\* list is what semantic_search(query, top_k=max_products) returned
chat_candidates(catalog, list, query, chat_history, max_products) ==
    LET ids == previously_mentioned_ids(chat_history)
    IN  IF is_follow_up(query) /\ ids # {}
        THEN merge_previous(
                 list,
                 get_products_by_ids(catalog,
                     [k \in 1..Cardinality(ids) |->
                         PyInt(CHOOSE n \in ids :
                                  Cardinality({m \in ids : m < n}) = k - 1)]),
                 max_products)
        ELSE list

(***************************************************************************)
(* Inputs of chat and stream_chat                                          *)
(***************************************************************************)
\* turns in the chat history
MaxHistory == 7

\* products in the catalog a chat runs on
MaxChatCatalog == 13

\* the catalog: product i has id i; in the "mixed" form product 2 stores
\* its id as the string "2"
ChatCatalog(n, form) ==
    [i \in 1..n |->
        LET k == KindSeq[(i % Len(KindSeq)) + 1]
        IN  [id |-> IF form = "mixed" /\ i = 2 THEN PyStr(StrOfNat(i)) ELSE PyInt(i),
             product_categories |-> k.product_categories,
             manufacturer_name |-> k.manufacturer_name,
             certifications |-> k.certifications,
             net_carbon_emissions |-> k.net_carbon_emissions]]

ChatCatalogs ==
    { ChatCatalog(n, "numeric") : n \in {0, 3} \cup (MAX_PRODUCTS + 1)..MaxChatCatalog }
        \cup { ChatCatalog(3, "mixed") }

\* similarities of the query to the n products: all above the threshold and
\* falling with the position, the first three below it, or all below it
ChatSimilarities(n) ==
    { [i \in 1..n |-> 90 - i],
      [i \in 1..n |-> IF i <= 3 THEN 10 ELSE 90 - i],
      [i \in 1..n |-> 10] }

\* no keyword; a keyword in capitals; a keyword inside another word
ChatQueries ==
    { <<"o", "a", "k", " ", "f", "l", "o", "o", "r">>,
      <<"t", "h", "e", " ", "c", "o", "S", "T", "?">>,
      <<"c", "a", "p", "r", "i", "c", "e">> }

UserMessage(content) == [role |-> "user", content |-> content]

AssistantMessage(content) == [role |-> "assistant", content |-> content]

ChatMessages ==
    { UserMessage(<<"I", " ", "l", "i", "k", "e", " ", "(", "I", "D", ":", " ", "1", ")">>),
      AssistantMessage(<<"t", "r", "y", " ", "(", "I", "D", ":", " ", "2", ")", ",", " ", "(", "I", "D", ":", "3", ")", " ", "(", "i", "d", ":", " ", "1", ")">>),
      AssistantMessage(<<"(", "I", "D", ":", " ", " ", "1", ")", " ", "I", "D", ":", " ", "3", " ", "(", "I", "D", ":", " ", "x", ")">>) }

\* three exchanges in which the same two messages alternate
Exchanges(first, second) == <<first, second, first, second, first, second>>

\* histories of up to three turns, and histories whose six most recent
\* turns are three exchanges, preceded by up to MaxHistory - 6 older turns
ChatHistories ==
    UNION { [1..n -> ChatMessages] : n \in 0..3 }
        \cup { older \o Exchanges(first, second) :
                 older \in UNION { [1..n -> ChatMessages] : n \in 0..(MaxHistory - 6) },
                 first \in ChatMessages, second \in ChatMessages }

NoChatContext ==
    [done |-> FALSE, query |-> <<>>, chat_history |-> <<>>, fresh |-> <<>>,
     handed |-> <<>>]

(***************************************************************************)
(* app.py, the /api/search handler for a non-empty query and the           *)
(* /api/chat event generator, with the SearchEngine methods they call.     *)
(* Each provider call is a step of its own.                                *)
(***************************************************************************)
\* data.get(key, default) of a number in the request body
GetNumber(x, default) == IF x.t = "absent" THEN default ELSE x.v

Max(a, b) == IF a > b THEN a ELSE b

Least(a, b) == IF a < b THEN a ELSE b

\* page = max(1, data.get('page', 1))
page_of(page_arg) == Max(1, GetNumber(page_arg, 1))

\* per_page = min(100, max(10, data.get('per_page', 50)))
per_page_of(per_page_arg) == Least(100, Max(10, GetNumber(per_page_arg, 50)))

\* faulty variant: the slice takes the item at end_idx as well
slice_inclusive(list, start_idx, end_idx) ==
    SubSeq(list, start_idx + 1, Least(end_idx + 1, Len(list)))

\* results[start_idx:end_idx]
Slice(list, start_idx, end_idx) ==
    SubSeq(list, start_idx + 1, Least(end_idx, Len(list)))

\* the 200 response of /api/search; search_results is the list search() returned
SearchResponse(results, page_arg, per_page_arg) ==
    LET page == page_of(page_arg)
        per_page == per_page_of(per_page_arg)
        total == Len(results)
        paginated_results == Slice(results, (page - 1) * per_page,
                                   (page - 1) * per_page + per_page)
    IN  [status |-> 200, error |-> "none", search_results |-> results,
         results |-> paginated_results, count |-> Len(paginated_results),
         total |-> total, page |-> page, per_page |-> per_page,
         total_pages |-> (total + per_page - 1) \div per_page]

\* the handler without a query: every product of the catalog that the
\* filters accept, in catalog order
filtered_products(all_products, filters) ==
    SelectSeq(all_products, LAMBDA p : _passes_filters(p, filters))

\* if not query: the listing is filtered, paginated and answered
list_products(all_products, filters, page_arg, per_page_arg) ==
    SearchResponse(filtered_products(all_products, filters), page_arg, per_page_arg)

\* faulty variant: the score is set on the catalog's own product
catalog_scored_in_place(catalog, scored) ==
    [i \in 1..Len(catalog) |->
        IF \E k \in 1..Len(scored) : scored[k].id = catalog[i].id
        THEN scored_copy(catalog[i], SIMILARITY_THRESHOLD)
        ELSE catalog[i]]

\* indexer.products after semantic_search: similarity_score is set on
\* product.copy(), the catalog's product is only read
catalog_after_semantic_search(catalog, scored) == catalog

\* indexer.products after llm_refine_results: llm_rank, llm_relevance and
\* llm_explanation are set on product_map[product_id].copy()
catalog_after_refinement(catalog, refined) == catalog

\* indexer.products after the merge of stream_chat: a product of the
\* history is inserted into the list semantic_search returned, and the
\* prompt only reads the list
catalog_after_merge(catalog, list) == catalog

\* except Exception as e: return jsonify({'error': str(e)}), 500
ErrorResponse(e) ==
    [status |-> 500, error |-> e, search_results |-> <<>>, results |-> <<>>,
     count |-> 0, total |-> 0, page |-> 0, per_page |-> 0, total_pages |-> 0]

NoResponse ==
    [status |-> 0, error |-> "none", search_results |-> <<>>, results |-> <<>>,
     count |-> 0, total |-> 0, page |-> 0, per_page |-> 0, total_pages |-> 0]

\* the framed events of /api/chat
StartEvent == [type |-> "start", text |-> "none"]

ContentEvent(text) == [type |-> "content", text |-> text]

DoneEvent == [type |-> "done", text |-> "none"]

ErrorEvent(e) == [type |-> "error", text |-> e]

\* the texts stream_chat yields itself
Unavailable == "AI chat is not available"

NotFound == "I couldn't find any products"

Apology == "I encountered an error"

\* search() after semantic_search returned: where the call goes next
after_semantic_search(semantic_results, use_llm_refinement, client_exists) ==
    IF semantic_results = <<>> THEN "return_empty"
    ELSE IF use_llm_refinement /\ client_exists THEN "refine"
    ELSE "return_top"

\* faulty variant: a failed provider call is issued again
retry_after_failure(kind, at) == at

\* where a request goes after a provider call raised: the search handler
\* answers, stream_chat yields its apology and returns to generate()
after_provider_failure(kind, at) == IF kind = "search" THEN "done" ELSE "finishing"

\* faulty variant: stream_chat lets the exception reach generate()
events_on_stream_failure_raised(events_sent) ==
    Append(events_sent, ErrorEvent("APIError"))

\* stream_chat, except Exception: one more text, the apology, is yielded
events_on_stream_failure(events_sent) ==
    Append(events_sent, ContentEvent(Apology))

\* faulty variant: the done event is sent in a finally clause
events_on_exception_then_done(events_sent, e) ==
    events_sent \o <<ErrorEvent(e), DoneEvent>>

\* generate(): except Exception as e: yield the error event
events_on_exception(events_sent, e) == Append(events_sent, ErrorEvent(e))

(***************************************************************************)
(* Inputs of the request handlers                                          *)
(***************************************************************************)
\* products in the catalog a request runs on
MaxRequestCatalog == 17

\* chunks the provider streams in one chat completion
MaxStreamChunks == 3

\* times one provider operation may be issued before the model stops counting
MaxProviderCalls == 2

RequestCatalogs ==
    { ChatCatalog(n, "numeric") : n \in {0, 2} \cup (TOP_K_FINAL + 1)..MaxRequestCatalog }

\* the process after init_search_system: search_engine is None when
\* load_products failed in an earlier request, the clients are None without
\* an API key, indexer.embeddings is None when generate_embeddings failed
Environments ==
    { [engine |-> TRUE, client |-> TRUE, embeddings |-> TRUE],
      [engine |-> TRUE, client |-> FALSE, embeddings |-> FALSE],
      [engine |-> TRUE, client |-> TRUE, embeddings |-> FALSE],
      [engine |-> FALSE, client |-> FALSE, embeddings |-> FALSE] }

RequestFilters == { NoFilters, [NoFilters EXCEPT !.manufacturers = <<"Acme">>] }

PageArgs == { PyAbsent, PyInt(0), PyInt(2) }

PerPageArgs == { PyAbsent, PyInt(5) }

SearchRequests ==
    [kind : {"search"}, filters : RequestFilters, use_llm_refinement : BOOLEAN,
     page : PageArgs, per_page : PerPageArgs,
     query : {<<"o", "a", "k">>}, chat_history : {<<>>}]

RequestHistories ==
    { <<>>,
      <<UserMessage(<<"h", "i">>),
        AssistantMessage(<<"(", "I", "D", ":", " ", "1", ")">>)>> }

ChatRequests ==
    [kind : {"chat"}, filters : {NoFilters}, use_llm_refinement : {FALSE},
     page : {PyAbsent}, per_page : {PyAbsent},
     query : ChatQueries, chat_history : RequestHistories]

NoRequest ==
    [kind |-> "none", filters |-> NoFilters, use_llm_refinement |-> FALSE,
     page |-> PyAbsent, per_page |-> PyAbsent, query |-> <<>>, chat_history |-> <<>>]

\* products in the catalog a listing request runs on
MaxListing == 101

\* catalogs of no product, one product, one full page of the smallest and of
\* the default size, 97 products, one full page of the largest size, and
\* one product more
ListingCatalogs ==
    { ChatCatalog(n, "numeric") : n \in {0, 1, 10, 50, 97, 100, MaxListing} }

\* page numbers from below the first page to beyond the last
ListingPages == { PyAbsent } \cup { PyInt(n) : n \in -1..12 }

\* page sizes below the minimum, at it, between, and above the maximum
ListingPageSizes == { PyAbsent, PyInt(5), PyInt(10), PyInt(33), PyInt(200) }

\* a request whose query is empty after strip()
ListingRequests ==
    [kind : {"search"}, filters : RequestFilters, use_llm_refinement : {TRUE},
     page : ListingPages, per_page : ListingPageSizes,
     query : {<<>>, <<" ">>}, chat_history : {<<>>}]

\* what the provider answers to the refinement prompt for m candidates
RefineReplies(m) ==
    { [kind |-> "raise", tokens |-> <<>>],
      [kind |-> "no_content", tokens |-> <<>>],
      [kind |-> "content", tokens |-> <<Prose>>],
      [kind |-> "content", tokens |-> <<JsonValue(JArray(<<>>))>>],
      [kind |-> "content",
       tokens |-> <<Fence, JsonWord, Space,
                    JsonValue(JArray([i \in 1..m |-> Rec(PyInt(m + 1 - i), i)])),
                    Space, Fence>>],
      [kind |-> "content",
       tokens |-> <<JsonValue(JArray([i \in 1..m |-> Rec(PyInt(1000 + i), i)]))>>] }

NoSemantic == [set |-> FALSE, list |-> <<>>]

NoCalls ==
    [embedding |-> 0, refinement |-> 0, chat |-> 0, failed |-> "none", chunks |-> 0,
     fragments |-> 0]

(***************************************************************************)
(* app.py, init_search_system, statement by statement, as the request      *)
(* handlers of a threaded server run it                                    *)
(***************************************************************************)
\* the request handlers that may run at the same time
Handlers == {1, 2}

\* calls of init_search_system one handler makes
MaxInitCalls == 2

\* a handler that has not called init_search_system
NotCalled == [pc |-> "out", calls |-> 0]

\* ProductIndexer.__init__: products = [], embeddings = None
NewIndexer == [products_loaded |-> FALSE, loads |-> 0, embeddings |-> FALSE]

\* load_products on the object: the file is read and the filter indexes built
load_products(obj) == [obj EXCEPT !.products_loaded = TRUE, !.loads = @ + 1]

\* the handler is past init_search_system and goes on with the request
PastInit(h) == handlers[h].pc = "returned"

(***************************************************************************)
(* epd_api.py, create_scan                                                 *)
(***************************************************************************)
\* product_ids[:5000]
SCAN_LIMIT == 5000

\* the product of an identifier that matches nothing: `... or {}`
EmptyProduct == [found |-> FALSE]

\* str(p.get(k)) == target for a key k that p has
KeyMatches(field, target) == field.t # "absent" /\ PyStrOf(field) = target

\* _find_product_by_id(product_id): the first product one of whose keys id,
\* product_id, sku, code has the string form of the identifier; the
\* modelled products have the keys id and sku
_find_product_by_id(catalog, product_id) ==
    LET hits == { i \in 1..Len(catalog) :
                    KeyMatches(catalog[i].id, product_id)
                        \/ KeyMatches(catalog[i].sku, product_id) }
    IN  IF hits = {} THEN EmptyProduct
        ELSE catalog[CHOOSE i \in hits : \A j \in hits : i <= j]

\* str(value or "")
StrOrEmpty(x) == IF Truthy(Get(x)) THEN PyStrOf(x) ELSE <<>>

\* " ".join(parts)
RECURSIVE JoinWithSpace(_)
JoinWithSpace(parts) ==
    IF parts = <<>> THEN <<>>
    ELSE IF Len(parts) = 1 THEN parts[1]
    ELSE parts[1] \o <<" ">> \o JoinWithSpace(Tail(parts))

general_keywords ==
    << <<"g", "r", "e", "e", "n", "t", "a", "g">>,
       <<"g", "r", "e", "e", "n", " ", "t", "a", "g">>,
       <<"g", "e", "c", "a">>,
       <<"g", "r", "e", "e", "n", "g", "u", "a", "r", "d">>,
       <<"b", "i", "f", "m", "a">>,
       <<"a", "f", "r", "d", "i">>,
       <<"c", "r", "a", "d", "l", "e", " ", "t", "o", " ", "c", "r", "a", "d", "l", "e">>,
       <<"c", "2", "c">>,
       <<"d", "e", "c", "l", "a", "r", "e">>,
       <<"h", "p", "d">>,
       <<"h", "e", "a", "l", "t", "h", " ", "p", "r", "o", "d", "u", "c", "t", " ", "d", "e", "c", "l", "a", "r", "a", "t", "i", "o", "n">>,
       <<"f", "s", "c">>,
       <<"p", "e", "f", "c">>,
       <<"r", "e", "s", "p", "o", "n", "s", "i", "b", "l", "e", " ", "w", "o", "o", "d">>,
       <<"r", "e", "s", "p", "o", "n", "s", "i", "b", "l", "e", " ", "s", "t", "e", "e", "l">>,
       <<"o", "e", "k", "o", "-", "t", "e", "x">>,
       <<"s", "c", "s", " ", "i", "n", "d", "o", "o", "r", " ", "a", "d", "v", "a", "n", "t", "a", "g", "e">>,
       <<"c", "e", "r", "t", "i", "f", "i", "c", "a", "t", "e">>,
       <<"c", "e", "r", "t", "i", "f", "i", "e", "d">>,
       <<"c", "e", "r", "t", "i", "f", "i", "c", "a", "t", "i", "o", "n">>,
       <<"e", "c", "o", "l", "a", "b", "e", "l">>,
       <<"g", "r", "e", "e", "n", " ", "r", "a", "t", "e">>,
       <<"h", "e", "a", "l", "t", "h", " ", "r", "a", "t", "e">>,
       <<"l", "c", "a", " ", "r", "a", "t", "e">> >>

epd_keywords ==
    << <<"e", "p", "d">>,
       <<"e", "n", "v", "i", "r", "o", "n", "m", "e", "n", "t", "a", "l", " ", "p", "r", "o", "d", "u", "c", "t", " ", "d", "e", "c", "l", "a", "r", "a", "t", "i", "o", "n">>,
       <<"i", "s", "o", " ", "1", "4", "0", "2", "5">>,
       <<"e", "n", " ", "1", "5", "8", "0", "4">>,
       <<"i", "b", "u">>,
       <<"e", "p", "d", " ", "a", "u", "s", "t", "r", "a", "l", "a", "s", "i", "a">>,
       <<"e", "p", "d", " ", "i", "n", "t", "e", "r", "n", "a", "t", "i", "o", "n", "a", "l">>,
       <<"e", "n", "v", "i", "r", "o", "n", "d", "e", "c">> >>

\* _text_contains_any(text, keywords)
_text_contains_any(text, keywords) ==
    \E k \in 1..Len(keywords) : Contains(Lower(text), keywords[k])

\* str(c.get("certification") or c.get("name") or "") of every certification
cert_names(certs) == [k \in 1..Len(certs) |-> StrOrEmpty(certs[k].certification)]

\* the text fields of the product joined by spaces; the modelled products
\* have product_name and product_description, the five other fields give ""
combined_text(p) ==
    JoinWithSpace(<<StrOrEmpty(p.product_name), StrOrEmpty(p.product_description),
                    <<>>, <<>>, <<>>, <<>>, <<>>>>)

\* faulty variant: a link to an EPD is no evidence of an EPD certificate
detect_cert_state_by_text_only(p) ==
    IF ~p.found THEN [has_any |-> FALSE, has_epd |-> FALSE]
    ELSE
        LET names_text == JoinWithSpace(cert_names(p.certifications))
        IN  [has_any |-> \/ p.has_certifications
                         \/ p.certifications # <<>>
                         \/ Truthy(Get(p.certificate_url))
                         \/ Truthy(Get(p.hpd_url))
                         \/ _text_contains_any(combined_text(p), general_keywords)
                         \/ _text_contains_any(names_text, general_keywords),
             has_epd |-> \/ _text_contains_any(combined_text(p), epd_keywords)
                         \/ _text_contains_any(names_text, epd_keywords)]

\* _detect_cert_state(product): (has_any_certificate, has_epd_certificate);
\* of the five certificate URL fields the modelled products have
\* certificate_url and hpd_url
_detect_cert_state(p) ==
    IF ~p.found THEN [has_any |-> FALSE, has_epd |-> FALSE]
    ELSE
        LET names_text == JoinWithSpace(cert_names(p.certifications))
        IN  [has_any |-> \/ p.has_certifications
                         \/ p.certifications # <<>>
                         \/ Truthy(Get(p.certificate_url))
                         \/ Truthy(Get(p.hpd_url))
                         \/ _text_contains_any(combined_text(p), general_keywords)
                         \/ _text_contains_any(names_text, general_keywords),
             has_epd |-> \/ Truthy(Get(p.epd_url))
                         \/ _text_contains_any(combined_text(p), epd_keywords)
                         \/ _text_contains_any(names_text, epd_keywords)]

\* the two fields evaluate_product reads, absent in the empty product
RuleFields(p) ==
    IF p.found THEN [epd_url |-> p.epd_url, epd_issue_date |-> p.epd_issue_date]
    ELSE [epd_url |-> PyAbsent, epd_issue_date |-> PyAbsent]

\* faulty variant: the tier of evaluate_product is the one displayed
risk_from_base_rule(state, base_risk) == base_risk

\* if has_epd_cert: Green; elif has_certs: Yellow; else: Red
risk_for_display(state, base_risk) ==
    IF state.has_epd THEN "Green"
    ELSE IF state.has_any THEN "Yellow"
    ELSE "Red"

\* one pass of the loop of create_scan: the ScanResult row of an
\* identifier, or the exception evaluate_product raised; reasons and
\* advisories are the lists that the row stores as JSON text
scan_row(catalog, pid) ==
    LET p == _find_product_by_id(catalog, pid)
        state == _detect_cert_state(p)
        base == evaluate_product(RuleFields(p))
    IN  [exc |-> base.exc,
         input_product_id |-> pid,
         epd_url |-> Get(RuleFields(p).epd_url),
         epd_issue_date |-> Get(RuleFields(p).epd_issue_date),
         risk_level |-> risk_for_display(state, base.risk_level),
         has_certifications |-> state.has_any,
         has_epd_certificate |-> state.has_epd,
         reasons |-> base.reasons,
         advisories |-> base.advisories]

\* faulty variant: blank entries are dropped after the list is cut
normalize_after_cut(values, limit) ==
    LET cut == SubSeq(values, 1, Least(limit, Len(values)))
        stripped == [k \in 1..Len(cut) |-> Strip(PyStrOf(cut[k]))]
    IN  SelectSeq(stripped, LAMBDA s : s # <<>>)

\* [str(x).strip() for x in values if str(x).strip()][:5000]; the values of
\* the identifier column of an uploaded file are treated alike
normalize_ids(values, limit) ==
    LET stripped == [k \in 1..Len(values) |-> Strip(PyStrOf(values[k]))]
        ids == SelectSeq(stripped, LAMBDA s : s # <<>>)
    IN  SubSeq(ids, 1, Least(limit, Len(ids)))

\* faulty variant: only the rows of known products are counted
count_known(rows, tier) ==
    Len(SelectSeq(rows, LAMBDA r : r.risk_level = tier /\ r.epd_url.t # "none"))

\* high, med, low: incremented in the branch that chooses the row's tier
count_tier(rows, tier) == Len(SelectSeq(rows, LAMBDA r : r.risk_level = tier))

\* the answer without a scan: 400 for a request without identifiers, 500
\* when the loop raised and nothing was committed
ScanRefused(path, values, status) ==
    [path |-> path, submitted |-> values, status |-> status, product_ids |-> <<>>,
     rows |-> <<>>, high |-> 0, medium |-> 0, low |-> 0, total |-> 0]

\* create_scan from the identifiers read from the request to the response
create_scan(catalog, path, values) ==
    LET product_ids == normalize_ids(values, SCAN_LIMIT)
        rows == [k \in 1..Len(product_ids) |-> scan_row(catalog, product_ids[k])]
    IN  IF path = "json" /\ product_ids = <<>>
        THEN ScanRefused(path, values, 400)
        ELSE IF \E k \in 1..Len(rows) : rows[k].exc # "none"
        THEN ScanRefused(path, values, 500)
        ELSE [path |-> path, submitted |-> values, status |-> 200,
              product_ids |-> product_ids,
              rows |-> rows,
              high |-> count_tier(rows, "Red"),
              medium |-> count_tier(rows, "Yellow"),
              low |-> count_tier(rows, "Green"),
              total |-> Len(product_ids)]

NoScan ==
    [path |-> "none", submitted |-> <<>>, status |-> 0, product_ids |-> <<>>,
     rows |-> <<>>, high |-> 0, medium |-> 0, low |-> 0, total |-> 0]

(***************************************************************************)
(* Inputs of create_scan                                                   *)
(***************************************************************************)
\* identifiers in the longest submission
MaxSubmitted == 5001

\* a product with an identifier and a name and nothing else
PlainProduct(id) ==
    [found |-> TRUE, id |-> id, sku |-> PyAbsent, epd_url |-> PyAbsent,
     epd_issue_date |-> PyAbsent, has_certifications |-> FALSE,
     certifications |-> <<>>, certificate_url |-> PyAbsent, hpd_url |-> PyAbsent,
     product_name |-> PyStr(<<"O", "a", "k">>), product_description |-> PyNone]

\* nine products: plain; flagged as certified; a string id, an FSC
\* certificate and a relative EPD link; an absolute EPD link and a date; an
\* EPD certificate and no link; a blank EPD link; "Certified" in the
\* description; an HPD link; a sku and an absolute link without a date
SoundProducts ==
    << PlainProduct(PyInt(1)),
       [PlainProduct(PyInt(2)) EXCEPT !.has_certifications = TRUE],
       [PlainProduct(PyStr(<<"3">>)) EXCEPT
            !.certifications = <<[certification |-> PyStr(<<"F", "S", "C">>)]>>,
            !.epd_url = PyStr(<<"p", "/", "x">>)],
       [PlainProduct(PyInt(4)) EXCEPT
            !.epd_url = PyStr(<<"h", "t", "t", "p", "s", ":", "/", "/", "x">>),
            !.epd_issue_date = PyStr(<<"2", "0", "2", "4">>)],
       [PlainProduct(PyInt(5)) EXCEPT
            !.certifications = <<[certification |-> PyStr(<<"E", "P", "D", " ", "A", "u", "s", "t", "r", "a", "l", "a", "s", "i", "a">>)]>>],
       [PlainProduct(PyInt(6)) EXCEPT !.epd_url = PyStr(<<" ">>)],
       [PlainProduct(PyInt(7)) EXCEPT
            !.product_description = PyStr(<<"C", "e", "r", "t", "i", "f", "i", "e", "d", " ", "o", "a", "k">>)],
       [PlainProduct(PyInt(8)) EXCEPT !.hpd_url = PyStr(<<"h", "t", "t", "p", "s", ":", "/", "/", "h">>)],
       [PlainProduct(PyInt(9)) EXCEPT
            !.sku = PyStr(<<"A", "1">>),
            !.epd_url = PyStr(<<"h", "t", "t", "p", ":", "/", "/", "x">>)] >>

\* a product whose EPD link is a number
NumericLinkProduct == [PlainProduct(PyInt(10)) EXCEPT !.epd_url = PyInt(7)]

\* no catalog (initialisation failed), the nine products, and the nine
\* products with the one whose link is a number
ScanCatalogs == { <<>>, SoundProducts, Append(SoundProducts, NumericLinkProduct) }

\* entries of a short submission: identifiers of products, padded, numeric,
\* a sku, an unknown identifier, and blank entries
SubmittedValues ==
    { PyStr(<<"1">>), PyInt(2), PyStr(<<" ", "3", " ">>), PyStr(<<"4">>),
      PyStr(<<"5">>), PyStr(<<"6">>), PyStr(<<"7">>), PyStr(<<"8">>),
      PyStr(<<"A", "1">>), PyStr(<<"1", "0">>), PyStr(<<"9", "9">>),
      PyStr(<<>>), PyStr(<<" ">>) }

\* the identifiers "1", "2", ... "n"; when blank, with a blank entry
\* between the first and the second
LongSubmission(n, blank) ==
    IF blank
    THEN [i \in 1..(n + 1) |->
             IF i = 2 THEN PyStr(<<" ">>) ELSE PyStr(StrOfNat(IF i > 2 THEN i - 1 ELSE i))]
    ELSE [i \in 1..n |-> PyStr(StrOfNat(i))]

Submissions ==
    UNION { [1..n -> SubmittedValues] : n \in 0..2 }
        \cup { LongSubmission(n, blank) :
                 n \in {SCAN_LIMIT, MaxSubmitted}, blank \in BOOLEAN }

(***************************************************************************)
(* States of the components a specification does not exercise              *)
(***************************************************************************)
RuleIdle ==
    /\ product = [epd_url |-> PyAbsent, epd_issue_date |-> PyAbsent]
    /\ evalResult = NoResult
    /\ evalCalls = 0

FilterIdle ==
    /\ fltProduct = Kind(<<>>, NONE, <<>>, PyAbsent)
    /\ fltFilters = NoFilters
    /\ fltResult = [done |-> FALSE, value |-> FALSE]

IdleRequest ==
    [top_k |-> PyNone, filters |-> NoFilters, provider |-> "idle", sims |-> <<>>]

SearchIdle ==
    /\ products = <<>>
    /\ searchReq = IdleRequest
    /\ searchOut = SearchRaised("idle")

IdleRefineRequest == [client |-> FALSE, reply |-> NoReply]

RefineIdle ==
    /\ candidates = <<>>
    /\ refineReq = IdleRefineRequest
    /\ refineOut = [exc |-> "idle", results |-> <<>>, path |-> "idle"]

IndexIdle ==
    /\ embeddings = NoEmbeddings
    /\ filter_indexes = EmptyIndexes
    /\ cache_file = NoCacheFile
    /\ indexer_client = FALSE
    /\ gen = GenIdle("none")
    /\ loaded = [count |-> 0, exc |-> "none"]
    /\ lookup = NoLookup

ChatContextIdle == chatCtx = NoChatContext

RequestIdle ==
    /\ env = [engine |-> FALSE, client |-> FALSE, embeddings |-> FALSE]
    /\ request = NoRequest
    /\ pc = "idle"
    /\ semantic = NoSemantic
    /\ calls = NoCalls
    /\ response = NoResponse
    /\ events = <<>>

SystemIdle ==
    /\ indexer = 0
    /\ search_engine = 0
    /\ indexer_objects = <<>>
    /\ handlers = [h \in Handlers |-> NotCalled]

ScanIdle == scan = NoScan

ServiceIdle == IndexIdle /\ ChatContextIdle /\ RequestIdle /\ SystemIdle /\ ScanIdle

(***************************************************************************)
(* Rule engine: a caller evaluates one product mapping, repeatedly         *)
(***************************************************************************)
InitRule ==
    /\ product \in RuleProducts
    /\ evalResult = NoResult
    /\ evalCalls = 0
    /\ FilterIdle
    /\ SearchIdle
    /\ RefineIdle
    /\ ServiceIdle

EvaluateProduct ==
    /\ evalCalls < MaxCalls
    /\ evalResult' = evaluate_product(product)
    /\ product' = evalResult'.product
    /\ evalCalls' = evalCalls + 1
    /\ UNCHANGED <<filterVars, searchVars, refineVars, serviceVars>>

NextRule == EvaluateProduct

SpecRule == InitRule /\ [][NextRule]_vars

(***************************************************************************)
(* Filters: one _passes_filters call on a product                          *)
(***************************************************************************)
InitFilter ==
    /\ fltProduct \in FilterProducts
    /\ fltFilters = NoFilters
    /\ fltResult = [done |-> FALSE, value |-> FALSE]
    /\ RuleIdle
    /\ SearchIdle
    /\ RefineIdle
    /\ ServiceIdle

PassesFilters ==
    /\ ~fltResult.done
    /\ \E filters \in FilterSpace :
          /\ fltFilters' = filters
          /\ fltResult' = [done |-> TRUE, value |-> _passes_filters(fltProduct, filters)]
    /\ UNCHANGED <<fltProduct, ruleVars, searchVars, refineVars, serviceVars>>

NextFilter == PassesFilters

SpecFilter == InitFilter /\ [][NextFilter]_vars

(***************************************************************************)
(* Semantic retrieval: one semantic_search call on a loaded catalog        *)
(***************************************************************************)
InitSearch ==
    /\ products \in Catalogs
    /\ searchReq = IdleRequest
    /\ searchOut = SearchRaised("idle")
    /\ RuleIdle
    /\ FilterIdle
    /\ RefineIdle
    /\ ServiceIdle

SemanticSearch ==
    /\ searchOut.exc = "idle"
    /\ \E top_k \in TopKArgs, filters \in SearchFilters, provider \in Providers,
          sims \in [1..Len(products) -> Scores] :
          /\ searchReq' = [top_k |-> top_k, filters |-> filters,
                           provider |-> provider, sims |-> sims]
          /\ searchOut' = semantic_search(products, sims, top_k, filters, provider)
    /\ UNCHANGED <<products, ruleVars, filterVars, refineVars, serviceVars>>

NextSearch == SemanticSearch

SpecSearch == InitSearch /\ [][NextSearch]_vars

(***************************************************************************)
(* Rank refinement: one llm_refine_results call on a candidate list        *)
(***************************************************************************)
InitRefine ==
    /\ candidates \in CandidateLists
    /\ refineReq = IdleRefineRequest
    /\ refineOut = [exc |-> "idle", results |-> <<>>, path |-> "idle"]
    /\ RuleIdle
    /\ FilterIdle
    /\ SearchIdle
    /\ ServiceIdle

\* the engine has no client and the provider is never called
RefineWithoutClient ==
    /\ refineOut.exc = "idle"
    /\ refineReq' = [client |-> FALSE, reply |-> NoReply]
    /\ refineOut' = llm_refine_results(candidates, FALSE, NoReply)
    /\ UNCHANGED <<candidates, ruleVars, filterVars, searchVars, serviceVars>>

\* the engine has a client; the provider raises or replies
RefineWithClient ==
    /\ refineOut.exc = "idle"
    /\ \E reply \in Replies :
          /\ refineReq' = [client |-> TRUE, reply |-> reply]
          /\ refineOut' = llm_refine_results(candidates, TRUE, reply)
    /\ UNCHANGED <<candidates, ruleVars, filterVars, searchVars, serviceVars>>

NextRefine == RefineWithoutClient \/ RefineWithClient

SpecRefine == InitRefine /\ [][NextRefine]_vars

(***************************************************************************)
(* Product indexer: load_products, generate_embeddings (one step per       *)
(* embedding batch) and the id lookups on one ProductIndexer               *)
(***************************************************************************)
InitIndexer ==
    /\ products = <<>>
    /\ embeddings = NoEmbeddings
    /\ filter_indexes = EmptyIndexes
    /\ cache_file \in { NoCacheFile, CacheFile(batch_embeddings(CatalogFile(2, "A")), 2) }
    /\ indexer_client \in BOOLEAN
    /\ gen = GenIdle("none")
    /\ loaded = [count |-> 0, exc |-> "none"]
    /\ lookup = NoLookup
    /\ searchReq = IdleRequest
    /\ searchOut = SearchRaised("idle")
    /\ RuleIdle
    /\ FilterIdle
    /\ RefineIdle
    /\ ChatContextIdle
    /\ RequestIdle
    /\ SystemIdle
    /\ ScanIdle

\* load_products on a file that exists
LoadProducts ==
    /\ gen.pc = "idle"
    /\ loaded.count < MaxLoads
    /\ \E file \in CatalogFiles :
          /\ products' = file
          /\ filter_indexes' = _build_filter_indexes(filter_indexes, file)
    /\ loaded' = [count |-> loaded.count + 1, exc |-> "none"]
    /\ UNCHANGED <<embeddings, cache_file, indexer_client, gen, lookup>>
    /\ UNCHANGED <<searchReq, searchOut, ruleVars, filterVars, refineVars, chatCtx,
                   requestVars, initVars, scan>>

\* load_products on a path that does not exist
LoadMissingFile ==
    /\ gen.pc = "idle"
    /\ loaded.count < MaxLoads
    /\ loaded' = [count |-> loaded.count + 1, exc |-> "FileNotFoundError"]
    /\ UNCHANGED <<products, embeddings, filter_indexes, cache_file, indexer_client,
                   gen, lookup>>
    /\ UNCHANGED <<searchReq, searchOut, ruleVars, filterVars, refineVars, chatCtx,
                   requestVars, initVars, scan>>

\* generate_embeddings up to the first batch: the cache is used, or the
\* call raises for want of a client, or the batch loop is entered
GenerateEmbeddings ==
    /\ gen.pc = "idle"
    /\ \E force_regenerate \in BOOLEAN, readable \in BOOLEAN :
          LET try_cache == ~force_regenerate /\ CACHE_EMBEDDINGS /\ cache_file.exists
              use_cache == /\ try_cache
                           /\ readable
                           /\ Len(cache_file.embeddings) = Len(products)
          IN  IF use_cache
              THEN /\ embeddings' = SomeEmbeddings(cache_file.embeddings)
                   /\ gen' = GenIdle("cached")
              ELSE /\ embeddings' = embeddings
                   /\ gen' = IF ~indexer_client
                             THEN GenIdle("ValueError")
                             ELSE [GenIdle("running") EXCEPT !.pc = "chunks"]
    /\ UNCHANGED <<products, filter_indexes, cache_file, indexer_client, loaded, lookup>>
    /\ UNCHANGED <<searchReq, searchOut, ruleVars, filterVars, refineVars, chatCtx,
                   requestVars, initVars, scan>>

\* one turn of the batch loop: embeddings.create answers or raises
GenerateChunk ==
    /\ gen.pc = "chunks"
    /\ gen.i < Len(products)
    /\ \E answered \in BOOLEAN :
          IF answered
          THEN /\ gen' = [gen EXCEPT
                             !.embeddings_list =
                                 @ \o batch_embeddings(batch_at(products, gen.i)),
                             !.requested = Append(@, gen.i),
                             !.i = @ + batch_size]
               /\ embeddings' = embeddings
          ELSE /\ gen' = [GenIdle("APIError") EXCEPT
                             !.requested = Append(gen.requested, gen.i)]
               /\ embeddings' = embeddings_after_failure(embeddings, gen.embeddings_list)
    /\ UNCHANGED <<products, filter_indexes, cache_file, indexer_client, loaded, lookup>>
    /\ UNCHANGED <<searchReq, searchOut, ruleVars, filterVars, refineVars, chatCtx,
                   requestVars, initVars, scan>>

\* after the loop: self.embeddings is assigned, then the cache is written
GenerateFinish ==
    /\ gen.pc = "chunks"
    /\ gen.i >= Len(products)
    /\ embeddings' = SomeEmbeddings(gen.embeddings_list)
    /\ cache_file' = IF CACHE_EMBEDDINGS
                     THEN CacheFile(gen.embeddings_list, Len(products))
                     ELSE cache_file
    /\ gen' = [GenIdle("generated") EXCEPT !.requested = gen.requested]
    /\ UNCHANGED <<products, filter_indexes, indexer_client, loaded, lookup>>
    /\ UNCHANGED <<searchReq, searchOut, ruleVars, filterVars, refineVars, chatCtx,
                   requestVars, initVars, scan>>

GetProductById ==
    /\ gen.pc = "idle"
    /\ \E product_id \in LookupIds :
          lookup' = [kind |-> "by_id", ids |-> <<product_id>>,
                     result |-> get_product_by_id(products, product_id)]
    /\ UNCHANGED <<products, embeddings, filter_indexes, cache_file, indexer_client,
                   gen, loaded>>
    /\ UNCHANGED <<searchReq, searchOut, ruleVars, filterVars, refineVars, chatCtx,
                   requestVars, initVars, scan>>

GetProductsByIds ==
    /\ gen.pc = "idle"
    /\ \E product_ids \in LookupIdLists :
          lookup' = [kind |-> "by_ids", ids |-> product_ids,
                     result |-> get_products_by_ids(products, product_ids)]
    /\ UNCHANGED <<products, embeddings, filter_indexes, cache_file, indexer_client,
                   gen, loaded>>
    /\ UNCHANGED <<searchReq, searchOut, ruleVars, filterVars, refineVars, chatCtx,
                   requestVars, initVars, scan>>

NextIndexer ==
    \/ LoadProducts
    \/ LoadMissingFile
    \/ GenerateEmbeddings
    \/ GenerateChunk
    \/ GenerateFinish
    \/ GetProductById
    \/ GetProductsByIds

SpecIndexer == InitIndexer /\ [][NextIndexer]_vars

(***************************************************************************)
(* Chat context: the part of chat / stream_chat between the return of      *)
(* semantic_search and the building of the prompt                          *)
(***************************************************************************)
InitChatContext ==
    /\ products \in ChatCatalogs
    /\ chatCtx = NoChatContext
    /\ searchReq = IdleRequest
    /\ searchOut = SearchRaised("idle")
    /\ RuleIdle
    /\ FilterIdle
    /\ RefineIdle
    /\ IndexIdle
    /\ RequestIdle
    /\ SystemIdle
    /\ ScanIdle

BuildCandidates ==
    /\ ~chatCtx.done
    /\ \E query \in ChatQueries, chat_history \in ChatHistories,
          sims \in ChatSimilarities(Len(products)) :
          LET fresh == semantic_search(products, sims, PyInt(MAX_PRODUCTS),
                                       NoFilters, "ok").results
          IN  chatCtx' = [done |-> TRUE, query |-> query,
                          chat_history |-> chat_history, fresh |-> fresh,
                          handed |-> chat_candidates(products, fresh, query,
                                                     chat_history, MAX_PRODUCTS)]
    /\ UNCHANGED <<products, searchReq, searchOut, ruleVars, filterVars, refineVars,
                   indexVars, requestVars,
                   initVars, scan>>

NextChatContext == BuildCandidates

SpecChatContext == InitChatContext /\ [][NextChatContext]_vars

(***************************************************************************)
(* Requests: one /api/search request with a query, or one /api/chat        *)
(* request, from its acceptance to its last byte                           *)
(***************************************************************************)
InitRequest ==
    /\ products \in RequestCatalogs
    /\ env \in Environments
    /\ request = NoRequest
    /\ pc = "idle"
    /\ semantic = NoSemantic
    /\ calls = NoCalls
    /\ response = NoResponse
    /\ events = <<>>
    /\ searchReq = IdleRequest
    /\ searchOut = SearchRaised("idle")
    /\ RuleIdle
    /\ FilterIdle
    /\ RefineIdle
    /\ IndexIdle
    /\ ChatContextIdle
    /\ SystemIdle
    /\ ScanIdle

\* /api/search reads the body of a request that has a query
AcceptSearch ==
    /\ pc = "idle"
    /\ \E r \in SearchRequests : request' = r
    /\ pc' = "semantic"
    /\ UNCHANGED <<env, semantic, calls, response, events>>
    /\ UNCHANGED <<searchVars, ruleVars, filterVars, refineVars, indexVars, chatCtx,
                 initVars, scan>>

\* /api/chat reads the body and returns the streaming response
AcceptChat ==
    /\ pc = "idle"
    /\ \E r \in ChatRequests : request' = r
    /\ pc' = "start"
    /\ UNCHANGED <<env, semantic, calls, response, events>>
    /\ UNCHANGED <<searchVars, ruleVars, filterVars, refineVars, indexVars, chatCtx,
                 initVars, scan>>

\* search_engine.search(...) is called and enters semantic_search, up to
\* the embeddings call
BeginSemanticSearch ==
    /\ pc = "semantic"
    /\ IF ~env.engine
       THEN response' = ErrorResponse("AttributeError") /\ pc' = "done"
       ELSE IF ~env.client
       THEN response' = ErrorResponse("ValueError") /\ pc' = "done"
       ELSE response' = response /\ pc' = "embed"
    /\ UNCHANGED <<env, request, semantic, calls, events>>
    /\ UNCHANGED <<searchVars, ruleVars, filterVars, refineVars, indexVars, chatCtx,
                 initVars, scan>>

\* generate() yields the start event
SendStart ==
    /\ pc = "start"
    /\ events' = Append(events, StartEvent)
    /\ pc' = "stream"
    /\ UNCHANGED <<env, request, semantic, calls, response>>
    /\ UNCHANGED <<searchVars, ruleVars, filterVars, refineVars, indexVars, chatCtx,
                 initVars, scan>>

\* generate() calls search_engine.stream_chat, which runs up to the
\* embeddings call of semantic_search
BeginStreamChat ==
    /\ pc = "stream"
    /\ IF ~env.engine
       THEN events' = events_on_exception(events, "AttributeError") /\ pc' = "closed"
       ELSE IF ~env.client
       THEN events' = Append(events, ContentEvent(Unavailable)) /\ pc' = "finishing"
       ELSE events' = events /\ pc' = "embed"
    /\ UNCHANGED <<env, request, semantic, calls, response>>
    /\ UNCHANGED <<searchVars, ruleVars, filterVars, refineVars, indexVars, chatCtx,
                 initVars, scan>>

\* self.client.embeddings.create for the query, and the rest of
\* semantic_search when it answers; in a chat the products list is then
\* merged with the products of the history
EmbedQuery ==
    /\ pc = "embed"
    /\ calls.embedding < MaxProviderCalls
    /\ \E answered \in BOOLEAN, sims \in ChatSimilarities(Len(products)) :
          LET raised == ~answered \/ ~env.embeddings
              failed == IF answered THEN calls.failed ELSE "embedding"
              fresh == semantic_search(
                           products, sims,
                           IF request.kind = "chat" THEN PyInt(MAX_PRODUCTS) ELSE PyNone,
                           request.filters, "ok").results
              list == IF request.kind = "chat"
                      THEN chat_candidates(products, fresh, request.query,
                                           request.chat_history, MAX_PRODUCTS)
                      ELSE fresh
          IN  /\ calls' = [calls EXCEPT !.embedding = @ + 1, !.failed = failed]
              /\ semantic' = IF raised THEN semantic ELSE [set |-> TRUE, list |-> list]
              /\ response' = IF request.kind = "search" /\ raised
                             THEN ErrorResponse(IF answered THEN "TypeError" ELSE "APIError")
                             ELSE response
              /\ events' = IF request.kind = "chat" /\ raised
                           THEN events_on_stream_failure(events)
                           ELSE IF request.kind = "chat" /\ list = <<>>
                           THEN Append(events, ContentEvent(NotFound))
                           ELSE events
              /\ pc' = IF ~answered THEN after_provider_failure(request.kind, "embed")
                       ELSE IF request.kind = "search"
                       THEN (IF raised THEN "done" ELSE "retrieved")
                       ELSE (IF raised \/ list = <<>> THEN "finishing" ELSE "complete")
              /\ products' = IF raised THEN products
                             ELSE catalog_after_merge(
                                      catalog_after_semantic_search(products, fresh), list)
    /\ UNCHANGED <<env, request, searchReq, searchOut>>
    /\ UNCHANGED <<ruleVars, filterVars, refineVars, indexVars, chatCtx,
                 initVars, scan>>

\* search() after semantic_search returned; when no refinement follows the
\* handler paginates and answers
AfterSemanticSearch ==
    /\ pc = "retrieved"
    /\ LET next == after_semantic_search(semantic.list, request.use_llm_refinement,
                                         env.client)
       IN  IF next = "refine"
           THEN response' = response /\ pc' = "refine"
           ELSE /\ response' = SearchResponse(
                                   IF next = "return_empty" THEN <<>>
                                   ELSE first_top_k_final(semantic.list),
                                   request.page, request.per_page)
                /\ pc' = "done"
    /\ UNCHANGED <<env, request, semantic, calls, events>>
    /\ UNCHANGED <<searchVars, ruleVars, filterVars, refineVars, indexVars, chatCtx,
                 initVars, scan>>

\* llm_refine_results: the completion call and what follows it; the handler
\* then paginates and answers
RefineCall ==
    /\ pc = "refine"
    /\ calls.refinement < MaxProviderCalls
    /\ \E reply \in RefineReplies(Len(semantic.list)) :
          /\ calls' = [calls EXCEPT !.refinement = @ + 1,
                                    !.failed = IF reply.kind = "raise" THEN "refinement"
                                               ELSE @]
          /\ response' = SearchResponse(
                             llm_refine_results(semantic.list, env.client, reply).results,
                             request.page, request.per_page)
          /\ pc' = IF reply.kind = "raise"
                   THEN after_provider_failure(request.kind, "refine")
                   ELSE "done"
          /\ products' = catalog_after_refinement(
                             products,
                             llm_refine_results(semantic.list, env.client, reply).results)
    /\ UNCHANGED <<env, request, semantic, events, searchReq, searchOut>>
    /\ UNCHANGED <<ruleVars, filterVars, refineVars, indexVars, chatCtx,
                 initVars, scan>>

\* stream_chat: self.client.chat.completions.create(..., stream=True)
ChatCall ==
    /\ pc = "complete"
    /\ calls.chat < MaxProviderCalls
    /\ \E answered \in BOOLEAN :
          /\ calls' = [calls EXCEPT !.chat = @ + 1,
                                    !.failed = IF answered THEN @ ELSE "chat"]
          /\ events' = IF answered THEN events
                       ELSE events_on_stream_failure(events)
          /\ pc' = IF answered THEN "chunks"
                   ELSE after_provider_failure(request.kind, "complete")
    /\ UNCHANGED <<env, request, semantic, response>>
    /\ UNCHANGED <<searchVars, ruleVars, filterVars, refineVars, indexVars, chatCtx,
                 initVars, scan>>

\* for chunk in stream: a chunk with text, a chunk without, the end of the
\* stream, or the stream raising
StreamChunk ==
    /\ pc = "chunks"
    /\ \E what \in {"text", "empty", "end", "raise"} :
          /\ what \in {"text", "empty"} => calls.chunks < MaxStreamChunks
          /\ calls' = [calls EXCEPT
                          !.chunks = IF what \in {"text", "empty"} THEN @ + 1 ELSE @,
                          !.fragments = IF what = "text" THEN @ + 1 ELSE @,
                          !.failed = IF what = "raise" THEN "chat" ELSE @]
          /\ events' = CASE what = "text"  -> Append(events, ContentEvent("delta"))
                         [] what = "raise" -> events_on_stream_failure(events)
                         [] OTHER          -> events
          /\ pc' = CASE what = "end"   -> "finishing"
                     [] what = "raise" -> after_provider_failure(request.kind, "complete")
                     [] OTHER          -> "chunks"
    /\ UNCHANGED <<env, request, semantic, response>>
    /\ UNCHANGED <<searchVars, ruleVars, filterVars, refineVars, indexVars, chatCtx,
                 initVars, scan>>

\* stream_chat returned: generate() yields the done event
SendDone ==
    /\ pc = "finishing"
    /\ events' = Append(events, DoneEvent)
    /\ pc' = "closed"
    /\ UNCHANGED <<env, request, semantic, calls, response>>
    /\ UNCHANGED <<searchVars, ruleVars, filterVars, refineVars, indexVars, chatCtx,
                 initVars, scan>>

\* the response has been sent; the process waits for the next request
NextRequestArrives ==
    /\ pc \in {"done", "closed"}
    /\ request' = NoRequest
    /\ pc' = "idle"
    /\ semantic' = NoSemantic
    /\ calls' = NoCalls
    /\ response' = NoResponse
    /\ events' = <<>>
    /\ UNCHANGED env
    /\ UNCHANGED <<searchVars, ruleVars, filterVars, refineVars, indexVars, chatCtx,
                 initVars, scan>>

NextRequest ==
    \/ NextRequestArrives
    \/ AcceptSearch
    \/ AcceptChat
    \/ BeginSemanticSearch
    \/ SendStart
    \/ BeginStreamChat
    \/ EmbedQuery
    \/ AfterSemanticSearch
    \/ RefineCall
    \/ ChatCall
    \/ StreamChunk
    \/ SendDone

SpecRequest == InitRequest /\ [][NextRequest]_vars

(***************************************************************************)
(* Listings: one /api/search request without a query                       *)
(***************************************************************************)
InitListing ==
    /\ products \in ListingCatalogs
    /\ env = [engine |-> TRUE, client |-> TRUE, embeddings |-> TRUE]
    /\ request = NoRequest
    /\ pc = "idle"
    /\ semantic = NoSemantic
    /\ calls = NoCalls
    /\ response = NoResponse
    /\ events = <<>>
    /\ searchReq = IdleRequest
    /\ searchOut = SearchRaised("idle")
    /\ RuleIdle
    /\ FilterIdle
    /\ RefineIdle
    /\ IndexIdle
    /\ ChatContextIdle
    /\ SystemIdle
    /\ ScanIdle

\* /api/search with a query that is empty after strip(): the catalog is
\* filtered and the requested page of it is answered
ListProducts ==
    /\ pc = "idle"
    /\ \E r \in ListingRequests :
          /\ Strip(r.query) = <<>>
          /\ request' = r
          /\ response' = list_products(products, r.filters, r.page, r.per_page)
    /\ pc' = "done"
    /\ UNCHANGED <<env, semantic, calls, events>>
    /\ UNCHANGED <<searchVars, ruleVars, filterVars, refineVars, indexVars, chatCtx,
                 initVars, scan>>

NextListing == ListProducts

SpecListing == InitListing /\ [][NextListing]_vars

(***************************************************************************)
(* Initialisation: request handlers call init_search_system, one           *)
(* statement at a time, on a process that starts with both globals None    *)
(***************************************************************************)
InitSystem ==
    /\ indexer = 0
    /\ search_engine = 0
    /\ indexer_objects = <<>>
    /\ handlers = [h \in Handlers |-> NotCalled]
    /\ ScanIdle
    /\ RuleIdle
    /\ FilterIdle
    /\ SearchIdle
    /\ RefineIdle
    /\ IndexIdle
    /\ ChatContextIdle
    /\ RequestIdle

\* the position of handler h becomes pos
At(h, pos) == handlers' = [handlers EXCEPT ![h].pc = pos]

OthersUnchanged ==
    UNCHANGED <<ruleVars, filterVars, searchVars, refineVars, indexVars, chatCtx,
                requestVars, scan>>

\* a handler calls init_search_system()
CallInit(h) ==
    /\ handlers[h].pc \in {"out", "returned", "raised"}
    /\ handlers[h].calls < MaxInitCalls
    /\ handlers' = [handlers EXCEPT ![h] = [pc |-> "check", calls |-> @.calls + 1]]
    /\ UNCHANGED <<indexer, search_engine, indexer_objects>>
    /\ OthersUnchanged

\* if indexer is None: ... else the function returns
CheckIndexer(h) ==
    /\ handlers[h].pc = "check"
    /\ At(h, IF indexer = 0 THEN "construct" ELSE "returned")
    /\ UNCHANGED <<indexer, search_engine, indexer_objects>>
    /\ OthersUnchanged

\* indexer = ProductIndexer(api_key=...)
ConstructIndexer(h) ==
    /\ handlers[h].pc = "construct"
    /\ indexer_objects' = Append(indexer_objects, NewIndexer)
    /\ indexer' = Len(indexer_objects) + 1
    /\ At(h, "load")
    /\ UNCHANGED search_engine
    /\ OthersUnchanged

\* indexer.load_products(): on the object the global names now; raises
\* FileNotFoundError, which leaves init_search_system, when the file is missing
LoadCatalog(h) ==
    /\ handlers[h].pc = "load"
    /\ \E file_exists \in BOOLEAN :
          IF file_exists
          THEN /\ indexer_objects' =
                      [indexer_objects EXCEPT ![indexer] = load_products(@)]
               /\ At(h, "embed")
          ELSE /\ indexer_objects' = indexer_objects
               /\ At(h, "raised")
    /\ UNCHANGED <<indexer, search_engine>>
    /\ OthersUnchanged

\* try: indexer.generate_embeddings() except Exception: a warning is printed
EmbedCatalog(h) ==
    /\ handlers[h].pc = "embed"
    /\ \E generated \in BOOLEAN :
          indexer_objects' =
              [indexer_objects EXCEPT ![indexer].embeddings = @ \/ generated]
    /\ At(h, "engine")
    /\ UNCHANGED <<indexer, search_engine>>
    /\ OthersUnchanged

\* search_engine = SearchEngine(indexer, ...), and the function returns
CreateEngine(h) ==
    /\ handlers[h].pc = "engine"
    /\ search_engine' = indexer
    /\ At(h, "returned")
    /\ UNCHANGED <<indexer, indexer_objects>>
    /\ OthersUnchanged

NextSystem ==
    \E h \in Handlers :
        \/ CallInit(h)
        \/ CheckIndexer(h)
        \/ ConstructIndexer(h)
        \/ LoadCatalog(h)
        \/ EmbedCatalog(h)
        \/ CreateEngine(h)

SpecSystem == InitSystem /\ [][NextSystem]_vars

(***************************************************************************)
(* Scans: one POST /scan request on a catalog                              *)
(***************************************************************************)
InitScan ==
    /\ products \in ScanCatalogs
    /\ scan = NoScan
    /\ searchReq = IdleRequest
    /\ searchOut = SearchRaised("idle")
    /\ RuleIdle
    /\ FilterIdle
    /\ RefineIdle
    /\ IndexIdle
    /\ ChatContextIdle
    /\ RequestIdle
    /\ SystemIdle

\* create_scan with a JSON list of identifiers or with an uploaded file
CreateScan ==
    /\ scan = NoScan
    /\ \E path \in {"json", "file"}, values \in Submissions :
          scan' = create_scan(products, path, values)
    /\ UNCHANGED <<ruleVars, filterVars, searchVars, refineVars, indexVars, chatCtx,
                   requestVars, initVars>>

NextScan == CreateScan

SpecScan == InitScan /\ [][NextScan]_vars

(***************************************************************************)
(* Claims about the rule engine                                            *)
(***************************************************************************)
IsBlankStr(s) == \A i \in 1..Len(s) : s[i] \in Whitespace

\* the EPD URL is missing, null, empty or whitespace-only
UrlBlank(u) == u.t \in {"absent", "none"} \/ (u.t = "str" /\ IsBlankStr(u.v))

Tiers == {"Red", "Yellow", "Green"}

InSeq(x, s) == \E i \in 1..Len(s) : s[i] = x

\* C1: a product whose EPD URL is missing, null, empty or whitespace-only,
\* whatever its issue date, is rated Red and its reasons contain
\* "Missing EPD file link".
C1_BlankUrlIsRed ==
    (evalCalls > 0 /\ UrlBlank(product.epd_url)) =>
        /\ evalResult.exc = "none"
        /\ evalResult.risk_level = "Red"
        /\ InSeq(MissingLink, evalResult.reasons)

C1_Witness ==
    /\ evalCalls > 0
    /\ product.epd_url.t = "str"
    /\ Len(product.epd_url.v) > 0
    /\ IsBlankStr(product.epd_url.v)
    /\ product.epd_issue_date.t = "str"
    /\ ~IsBlankStr(product.epd_issue_date.v)
    /\ evalResult.risk_level = "Red"

\* the triple the four-way table prescribes
Table(isAbsolute, hasIssueDate) ==
    IF ~isAbsolute /\ ~hasIssueDate THEN <<"Yellow", <<RelativeNoDate>>>>
    ELSE IF ~isAbsolute THEN <<"Yellow", <<RelativePath>>>>
    ELSE IF ~hasIssueDate THEN <<"Yellow", <<NoIssueDate>>>>
    ELSE <<"Green", <<Accessible>>>>

FollowsTable(isAbsolute, hasIssueDate) ==
    /\ evalResult.exc = "none"
    /\ <<evalResult.risk_level, evalResult.reasons>> = Table(isAbsolute, hasIssueDate)

NonBlankStrUrl == product.epd_url.t = "str" /\ ~IsBlankStr(product.epd_url.v)

SchemeAtStart(s) ==
    StartsWith(Lower(s), HttpPrefix) \/ StartsWith(Lower(s), HttpsPrefix)

\* C2 as stated: for a non-blank EPD URL, with isAbsolute = the URL starts
\* with http:// or https:// (case-insensitive) and hasIssueDate = the issue
\* date is present and non-blank, the tier and reason follow the four-way
\* table (stated here for issue dates that are absent, null or strings).
C2_AsStated ==
    (evalCalls > 0 /\ NonBlankStrUrl /\ product.epd_issue_date.t # "int") =>
        FollowsTable(
            SchemeAtStart(product.epd_url.v),
            /\ product.epd_issue_date.t \notin {"absent", "none"}
            /\ (product.epd_issue_date.t = "str" =>
                    ~IsBlankStr(product.epd_issue_date.v)))

\* C2 amended: for a non-blank string EPD URL, with isAbsolute = the URL with
\* its surrounding whitespace removed starts with http:// or https://
\* (case-insensitive) and hasIssueDate = the issue date is present, is not a
\* falsy value (null, empty string, 0) and is not whitespace-only, the tier
\* and reason follow the four-way table.
C2_TableAfterStrip ==
    (evalCalls > 0 /\ NonBlankStrUrl) =>
        FollowsTable(
            SchemeAtStart(Strip(product.epd_url.v)),
            /\ product.epd_issue_date.t \notin {"absent", "none"}
            /\ (product.epd_issue_date.t = "str" =>
                    ~IsBlankStr(product.epd_issue_date.v))
            /\ (product.epd_issue_date.t = "int" =>
                    product.epd_issue_date.v # 0))

C2_Witness ==
    /\ evalCalls > 0
    /\ NonBlankStrUrl
    /\ product.epd_url.v[1] \in Whitespace
    /\ SchemeAtStart(Strip(product.epd_url.v))
    /\ evalResult.risk_level = "Green"

\* C3: evaluate_product is total: whatever the values of the EPD URL and the
\* issue date (absent, null, empty, string, number), it returns a triple
\* whose tier is Red, Yellow or Green and never raises.
C3_Total ==
    evalCalls > 0 =>
        /\ evalResult.exc = "none"
        /\ evalResult.risk_level \in Tiers

PresentNonEmpty(x) ==
    /\ x.t \notin {"absent", "none"}
    /\ (x.t = "str" => Len(x.v) > 0)

FilterSemantics(p, f) ==
    /\ (f.categories # <<>> =>
          \E i \in 1..Len(p.product_categories) :
              In(p.product_categories[i].category_name, f.categories))
    /\ (f.manufacturers # <<>> => In(p.manufacturer_name, f.manufacturers))
    /\ (f.certifications # <<>> =>
          \E i \in 1..Len(p.certifications) :
              In(p.certifications[i].certification, f.certifications))
    /\ (f.has_certifications => p.certifications # <<>>)
    /\ (f.has_carbon_data => PresentNonEmpty(p.net_carbon_emissions))

\* C8: _passes_filters accepts a product iff every supplied filter type
\* accepts it: category, manufacturer and certification filters by membership
\* of a product name in the requested list, has_certifications and
\* has_carbon_data iff the attribute is present and non-empty; an absent or
\* empty filter accepts every product.
C8_FilterSemantics ==
    fltResult.done => (fltResult.value <=> FilterSemantics(fltProduct, fltFilters))

(***************************************************************************)
(* Claims about semantic_search                                            *)
(***************************************************************************)
SearchDone == searchOut.exc = "none"

Results == searchOut.results

\* C5: the list semantic_search returns is ordered by similarity_score
\* non-increasing and holds no product below the similarity threshold.
C5_SortedAboveThreshold ==
    SearchDone =>
        /\ \A i \in 1..Len(Results) : \A j \in i..Len(Results) :
              Results[i].similarity_score >= Results[j].similarity_score
        /\ \A i \in 1..Len(Results) :
              Results[i].similarity_score >= SIMILARITY_THRESHOLD

C5_Witness ==
    /\ SearchDone
    /\ Len(Results) >= 2
    /\ Results[1].similarity_score > Results[2].similarity_score
    /\ searchReq.sims[1] < searchReq.sims[2]
    /\ \E i \in 1..Len(products) : searchReq.sims[i] < SIMILARITY_THRESHOLD

TopK == IF searchReq.top_k.t = "int" THEN searchReq.top_k.v ELSE TOP_K_SEMANTIC

\* E: the catalog positions at or above the threshold that pass the filters
EligibleUnder(filters) ==
    { i \in 1..Len(products) :
        /\ searchReq.sims[i] >= SIMILARITY_THRESHOLD
        /\ _passes_filters(products[i], filters) }

Eligible == EligibleUnder(searchReq.filters)

Returned_ids == { Results[i].id : i \in 1..Len(Results) }

Min(a, b) == IF a < b THEN a ELSE b

\* C6: semantic_search returns the highest-scoring eligible subset: exactly
\* min(topK, |E|) entries, each a scored copy of a member of E, and no
\* member of E left out is more similar than a returned entry.
C6_HighestScoringEligible ==
    SearchDone =>
        /\ Len(Results) = Min(TopK, Cardinality(Eligible))
        /\ Cardinality(Returned_ids) = Len(Results)
        /\ \A r \in 1..Len(Results) : \E i \in Eligible :
              Results[r] = scored_copy(products[i], searchReq.sims[i])
        /\ \A i \in Eligible :
              products[i].id \notin Returned_ids =>
                  \A r \in 1..Len(Results) :
                      searchReq.sims[i] <= Results[r].similarity_score

C6_Witness ==
    /\ SearchDone
    /\ Cardinality(Eligible) > TopK
    /\ Len(Results) = TopK
    /\ \E i \in 1..Len(products) :
          /\ i \notin Eligible
          /\ \E r \in 1..Len(Results) : searchReq.sims[i] > Results[r].similarity_score

\* f2 is f with further filter types supplied
Extends(f, f2) ==
    /\ f.categories # <<>> => f2.categories = f.categories
    /\ f.manufacturers # <<>> => f2.manufacturers = f.manufacturers
    /\ f.certifications # <<>> => f2.certifications = f.certifications
    /\ f.has_certifications => f2.has_certifications
    /\ f.has_carbon_data => f2.has_carbon_data

CountWith(filters) ==
    Len(semantic_search(products, searchReq.sims, searchReq.top_k, filters,
                        searchReq.provider).results)

\* C7: for the same query, catalog and topK, a call with a further filter
\* never returns more results than the call without it.
C7_FilterNeverAdds ==
    SearchDone =>
        \A f2 \in FilterSpace :
            Extends(searchReq.filters, f2) => CountWith(f2) <= Len(Results)

C7_Witness ==
    /\ SearchDone
    /\ searchReq.filters # NoFilters
    /\ Len(Results) >= 2
    /\ \E f2 \in FilterSpace :
          /\ Extends(searchReq.filters, f2)
          /\ CountWith(f2) < Len(Results)
          /\ CountWith(f2) > 0

(***************************************************************************)
(* Claims about llm_refine_results                                         *)
(***************************************************************************)
RefineDone == refineOut.exc # "idle"

Reply == refineReq.reply

Parsed == json_loads(extract_json(StripTokens(Reply.tokens)))

CandidateIds == { candidates[i].id : i \in 1..Len(candidates) }

\* the provider is unavailable or raises, the reply is not parseable JSON or
\* not an array of well-formed objects, the array is empty, or no returned
\* id is the id of a candidate
RefinementFails ==
    \/ ~refineReq.client
    \/ Reply.kind \in {"raise", "no_content"}
    \/ ~Parsed.ok
    \/ Parsed.value.t # "array"
    \/ Parsed.value.items = <<>>
    \/ \E i \in 1..Len(Parsed.value.items) :
          \/ Parsed.value.items[i].t # "object"
          \/ Parsed.value.items[i].product_id.t = "absent"
    \/ \A i \in 1..Len(Parsed.value.items) :
          Parsed.value.items[i].product_id \notin CandidateIds

\* C9: for a non-empty candidate list, whenever refinement fails in any way,
\* llm_refine_results raises nothing and returns exactly the first
\* TOP_K_FINAL candidates in their original order.
C9_FallbackIsPrefix ==
    (RefineDone /\ candidates # <<>> /\ RefinementFails) =>
        /\ refineOut.exc = "none"
        /\ refineOut.results = SubSeq(candidates, 1, Min(TOP_K_FINAL, Len(candidates)))

C9_Witness ==
    /\ RefineDone
    /\ Len(candidates) > TOP_K_FINAL
    /\ refineReq.client
    /\ Reply.kind = "content"
    /\ Parsed.ok
    /\ Parsed.value.t = "array"
    /\ Len(Parsed.value.items) > 0
    /\ \A i \in 1..Len(Parsed.value.items) :
          /\ Parsed.value.items[i].t = "object"
          /\ Parsed.value.items[i].product_id.t # "absent"
          /\ Parsed.value.items[i].product_id \notin CandidateIds
    /\ Len(refineOut.results) = TOP_K_FINAL
    /\ refineOut.results[1] = candidates[1]

\* the attributes of an entry that it has as a candidate
AsCandidate(entry) ==
    [id |-> entry.id, product_categories |-> entry.product_categories,
     manufacturer_name |-> entry.manufacturer_name,
     certifications |-> entry.certifications,
     net_carbon_emissions |-> entry.net_carbon_emissions,
     similarity_score |-> entry.similarity_score]

\* C10: for every provider reply, llm_refine_results raises nothing, returns
\* at most TOP_K_FINAL entries, and every entry is a copy of an input
\* candidate: an id the provider invented never appears in the output.
C10_BoundedAndFromCandidates ==
    RefineDone =>
        /\ refineOut.exc = "none"
        /\ Len(refineOut.results) <= TOP_K_FINAL
        /\ \A r \in 1..Len(refineOut.results) :
              \E i \in 1..Len(candidates) :
                  AsCandidate(refineOut.results[r]) = candidates[i]

C10_Witness ==
    /\ RefineDone
    /\ refineOut.path = "refined"
    /\ Len(refineOut.results) = TOP_K_FINAL
    /\ Len(Parsed.value.items) > TOP_K_FINAL + 1
    /\ \E i \in 1..Len(Parsed.value.items) :
          Parsed.value.items[i].product_id \notin CandidateIds
    /\ Cardinality({ i \in 1..Len(Parsed.value.items) :
                       Parsed.value.items[i].product_id \in CandidateIds })
          > TOP_K_FINAL

(***************************************************************************)
(* Claims about the product indexer                                        *)
(***************************************************************************)
\* the products whose id has the same string form as one of the ids asked for
SameStringForm(list, ids) ==
    SelectSeq(list, LAMBDA p : \E k \in 1..Len(ids) : PyStrOf(p.id) = PyStrOf(ids[k]))

\* C13: a lookup by id finds the product whose id has the same normalized
\* string form as the id asked for, whether the catalog stores the id as a
\* number or as a string and whichever form the caller passes:
\* get_product_by_id returns the first such product and get_products_by_ids
\* returns all of them in catalog order.
C13_LookupByNormalizedId ==
    [][ /\ (lookup' # lookup /\ lookup'.kind = "by_id") =>
              LET same == SameStringForm(products, lookup'.ids)
              IN  lookup'.result = IF same = <<>> THEN <<>> ELSE <<Head(same)>>
        /\ (lookup' # lookup /\ lookup'.kind = "by_ids") =>
              lookup'.result = SameStringForm(products, lookup'.ids) ]_vars

\* the buckets of one index agree with the catalog: every id is the id of a
\* loaded product, and there are as many ids as products carrying the value
BucketsAgree(buckets, carries(_, _)) ==
    \A name \in BucketNames :
        /\ \A k \in 1..Len(buckets[name]) :
               \E i \in 1..Len(products) : products[i].id = buckets[name][k]
        /\ Len(buckets[name]) =
               Cardinality({ i \in 1..Len(products) : carries(products[i], name) })

InCategory(p, name) == In(name, product_cats(p))

MadeBy(p, name) == p.manufacturer_name = name

\* C14: after any sequence of load_products calls, every id in a category
\* or manufacturer bucket of filter_indexes is the id of a currently loaded
\* product and each bucket is as long as the number of current products
\* carrying that category or manufacturer.
C14_BucketsMatchCatalog ==
    /\ BucketsAgree(filter_indexes.categories, InCategory)
    /\ BucketsAgree(filter_indexes.manufacturers, MadeBy)

\* C15: between calls, embeddings that are not None hold exactly one vector
\* per product of the current catalog, the vector at position i being the
\* one generated from the product at position i.
C15_EmbeddingsInLockstep ==
    (gen.pc = "idle" /\ embeddings.set) =>
        /\ Len(embeddings.vectors) = Len(products)
        /\ \A i \in 1..Len(products) :
               embeddings.vectors[i] = get_product_embedding_text(products[i])

\* C16: generate_embeddings is all-or-nothing.  The batches are requested
\* in catalog order (offsets 0, batch_size, 2*batch_size, ...); a step in
\* which a batch request fails leaves embeddings and the cache file as they
\* were; and the cache file changes only in the step that ends a run whose
\* batches all succeeded, when it receives the vectors of the whole catalog.
C16_AllOrNothing ==
    [][ /\ \A k \in 1..Len(gen'.requested) : gen'.requested[k] = (k - 1) * batch_size
        /\ (gen.pc = "chunks" /\ gen'.outcome = "APIError") =>
               /\ embeddings' = embeddings
               /\ cache_file' = cache_file
        /\ cache_file' # cache_file =>
               /\ gen.pc = "chunks"
               /\ gen'.outcome = "generated"
               /\ Len(gen.embeddings_list) = Len(products)
               /\ Len(gen.requested) * batch_size >= Len(products)
               /\ cache_file' = CacheFile(gen.embeddings_list, Len(products))
               /\ embeddings' = SomeEmbeddings(gen.embeddings_list) ]_vars

\* a run failed at its second batch while earlier embeddings were in place
C16_Witness ==
    /\ gen.outcome = "APIError"
    /\ Len(gen.requested) = 2
    /\ embeddings.set
    /\ cache_file.exists

(***************************************************************************)
(* Claims about the candidate list of chat and stream_chat                 *)
(***************************************************************************)
Handed == chatCtx.handed

Fresh == chatCtx.fresh

\* the entry is a catalog product put in front, not a scored search result
CarriedForward(entry) == "similarity_score" \notin DOMAIN entry

SameEntry(a, b) == DOMAIN a = DOMAIN b /\ a = b

\* positions of the catalog products whose id is one of the numbers ids and
\* that are not in the fresh results
MissingPrevious(ids) ==
    { i \in 1..Len(products) :
        /\ products[i].id.t = "int"
        /\ products[i].id.v \in ids
        /\ ~IdIn(products[i], Fresh) }

RecentTurns == { j \in 1..Len(chatCtx.chat_history) : j > Len(chatCtx.chat_history) - 6 }

MentionedBy(n, j, role) ==
    /\ chatCtx.chat_history[j].role = role
    /\ n \in find_ids(chatCtx.chat_history[j].content, 1)

\* C18: a product is carried forward from the history only if its id occurs,
\* in the form (ID: n), in a message written by the assistant among the six
\* most recent turns; ids found only in user messages or in older turns are
\* not carried forward.
C18_OnlyRecentAssistantIds ==
    chatCtx.done =>
        \A k \in 1..Len(Handed) :
            CarriedForward(Handed[k]) =>
                /\ Handed[k].id.t = "int"
                /\ \E j \in RecentTurns : MentionedBy(Handed[k].id.v, j, "assistant")

\* product 1 is named by the assistant in the seventh turn back and by the
\* user since, products 2 and 3 by the assistant since: 1 is not carried
C18_Witness ==
    /\ chatCtx.done
    /\ is_follow_up(chatCtx.query)
    /\ Len(chatCtx.chat_history) = 7
    /\ MentionedBy(1, 1, "assistant")
    /\ \E j \in RecentTurns : MentionedBy(1, j, "user")
    /\ \A j \in RecentTurns : ~MentionedBy(1, j, "assistant")
    /\ Len(products) >= 3
    /\ ~IdIn(products[1], Fresh)
    /\ \E k \in 1..Len(Handed) : CarriedForward(Handed[k])
    /\ \A k \in 1..Len(Handed) : Handed[k].id # PyInt(1)

(***************************************************************************)
(* Claims about the search and chat requests                               *)
(***************************************************************************)
SearchAnswered == request.kind = "search" /\ pc = "done"

\* C11: when semantic_search gave search() at least one candidate, search()
\* returns a non-empty list, with and without refinement requested and
\* whatever the refinement provider does.
C11_CandidatesGiveResults ==
    (SearchAnswered /\ semantic.set /\ semantic.list # <<>>) =>
        /\ response.status = 200
        /\ response.search_results # <<>>

\* refinement was requested, its provider call raised, results are returned
C11_Witness ==
    /\ SearchAnswered
    /\ request.use_llm_refinement
    /\ calls.failed = "refinement"
    /\ Len(semantic.list) > TOP_K_FINAL
    /\ Len(response.search_results) = TOP_K_FINAL

\* no credentials, embeddings never generated, or the embeddings call failed
EmbeddingUnavailable ==
    /\ env.engine
    /\ (~env.client \/ ~env.embeddings \/ calls.failed = "embedding")

\* C12: when the embedding provider is unavailable, a search request with a
\* query is answered with an empty result list and no error, and the
\* refinement step is not invoked.
C12_DegradesToNoResults ==
    (SearchAnswered /\ EmbeddingUnavailable) =>
        /\ response.status = 200
        /\ response.error = "none"
        /\ response.results = <<>>
        /\ calls.refinement = 0

Terminal(e) == e.type \in {"done", "error"}

\* C19: the events of a chat request are one start event first, then
\* content events, then one terminal event, done or error, as the last
\* event: nothing is sent after a terminal event, so done and error are
\* never both sent, and a closed stream has ended with its terminal event.
C19_StartContentTerminal ==
    /\ \A k \in 1..Len(events) :
           /\ (events[k].type = "start") <=> (k = 1)
           /\ Terminal(events[k]) => k = Len(events)
           /\ (k > 1 /\ k < Len(events)) => events[k].type = "content"
    /\ (events # <<>> /\ Terminal(events[Len(events)])) <=> pc = "closed"
    /\ pc = "closed" => Len(events) >= 2

\* the stream raised after its chunks: start, the texts, the apology, done
C19_Witness ==
    /\ pc = "closed"
    /\ Len(events) = MaxStreamChunks + 3
    /\ events[Len(events)] = DoneEvent
    /\ events[Len(events) - 1] = ContentEvent(Apology)

RequestOver == pc \in {"done", "finishing", "closed"}

\* C20: within one request the query embedding, the refinement completion
\* and the chat completion are each issued at most once; once one of them
\* has failed the request is over, with the error response (embedding, in a
\* search), the unrefined candidates (refinement) or the apology text
\* (chat), and no provider call follows.
C20_ProviderCalledOnce ==
    /\ calls.embedding <= 1
    /\ calls.refinement <= 1
    /\ calls.chat <= 1
    /\ calls.failed # "none" =>
           /\ RequestOver
           /\ (request.kind = "search" /\ calls.failed = "embedding") =>
                  response.status = 500
           /\ calls.failed = "refinement" =>
                  /\ response.status = 200
                  /\ response.search_results = first_top_k_final(semantic.list)
           /\ request.kind = "chat" =>
                  \E k \in 1..Len(events) :
                      /\ events[k] = ContentEvent(Apology)
                      /\ \A j \in (k + 1)..Len(events) : events[j] = DoneEvent

\* the chat completion failed in mid-stream and the request has ended
C20_Witness ==
    /\ pc = "closed"
    /\ calls.failed = "chat"
    /\ calls.chunks >= 1
    /\ calls.embedding = 1
    /\ calls.chat = 1

(***************************************************************************)
(* Claims about scans                                                      *)
(***************************************************************************)
ScanAnswered == scan.path # "none"

ScanCompleted == scan.status = 200

\* the identifiers of a submission: its entries that are not blank, without
\* their surrounding whitespace, in submission order
Identifiers(values) ==
    LET texts == [k \in 1..Len(values) |-> Strip(PyStrOf(values[k]))]
    IN  SelectSeq(texts, LAMBDA s : ~IsBlankStr(s))

\* the identifier is one whose product makes evaluate_product raise
RaisesOn(pid) == evaluate_product(RuleFields(_find_product_by_id(products, pid))).exc # "none"

RowIds == [k \in 1..Len(scan.rows) |-> scan.rows[k].input_product_id]

\* C22: a scan never holds more than 5000 rows; a request that submits more
\* than 5000 identifiers, as a JSON list or as a file, is not refused for
\* it: exactly the first 5000 identifiers are processed, in submission
\* order (the only error such a request can meet is the one a product among
\* those 5000 raises in the rule engine).
C22_FirstFiveThousand ==
    ScanAnswered =>
        LET ids == Identifiers(scan.submitted)
        IN  /\ Len(scan.rows) <= SCAN_LIMIT
            /\ Len(ids) > SCAN_LIMIT =>
                   \/ /\ ScanCompleted
                      /\ scan.product_ids = SubSeq(ids, 1, SCAN_LIMIT)
                      /\ RowIds = SubSeq(ids, 1, SCAN_LIMIT)
                      /\ scan.total = SCAN_LIMIT
                   \/ /\ scan.status = 500
                      /\ \E k \in 1..SCAN_LIMIT : RaisesOn(ids[k])

\* a file of 5001 identifiers, of which the last is left out
C22_Witness ==
    /\ ScanCompleted
    /\ Len(scan.submitted) = SCAN_LIMIT + 1
    /\ Len(Identifiers(scan.submitted)) = SCAN_LIMIT + 1
    /\ Len(scan.rows) = SCAN_LIMIT
    /\ scan.rows[SCAN_LIMIT].input_product_id = StrOfNat(SCAN_LIMIT)
    /\ scan.path = "file"

\* the product a row was made from
ProductOf(row) == _find_product_by_id(products, row.input_product_id)

\* the tier that certificate detection alone gives
CertificateTier(p) ==
    IF _detect_cert_state(p).has_epd THEN "Green"
    ELSE IF _detect_cert_state(p).has_any THEN "Yellow"
    ELSE "Red"

\* C23: in a completed scan every row's tier is Green when an EPD
\* certificate is detected for its product, else Yellow when any
\* certificate is detected, else Red, whatever tier evaluate_product gives
\* the product; the row's reasons and advisories are the lists
\* evaluate_product returns for the product.
C23_TierByCertificates ==
    ScanCompleted =>
        \A k \in 1..Len(scan.rows) :
            LET row == scan.rows[k]
                base == evaluate_product(RuleFields(ProductOf(row)))
            IN  /\ row.risk_level = CertificateTier(ProductOf(row))
                /\ row.reasons = base.reasons
                /\ row.advisories = base.advisories

\* a flagged product without a link: Red for the rule engine, Yellow in
\* the scan; then a product with a link and no date: Yellow and Green
C23_Witness ==
    /\ ScanCompleted
    /\ Len(scan.rows) = 2
    /\ scan.rows[1].risk_level = "Yellow"
    /\ evaluate_product(RuleFields(ProductOf(scan.rows[1]))).risk_level = "Red"
    /\ scan.rows[1].reasons = <<MissingLink>>
    /\ scan.rows[2].risk_level = "Green"
    /\ evaluate_product(RuleFields(ProductOf(scan.rows[2]))).risk_level = "Yellow"
    /\ scan.rows[2].reasons = <<NoIssueDate>>

RowsOfTier(tier) == { k \in 1..Len(scan.rows) : scan.rows[k].risk_level = tier }

\* C24: a completed scan has one row for each processed identifier, in
\* submission order, whether or not the identifier matches a product; total
\* is the number of rows and of processed identifiers, high, medium and low
\* are the numbers of Red, Yellow and Green rows, and they add up to total.
C24_RowsAndCounts ==
    ScanCompleted =>
        /\ scan.product_ids =
               SubSeq(Identifiers(scan.submitted), 1,
                      Min(SCAN_LIMIT, Len(Identifiers(scan.submitted))))
        /\ RowIds = scan.product_ids
        /\ scan.total = Len(scan.rows)
        /\ scan.high = Cardinality(RowsOfTier("Red"))
        /\ scan.medium = Cardinality(RowsOfTier("Yellow"))
        /\ scan.low = Cardinality(RowsOfTier("Green"))
        /\ scan.high + scan.medium + scan.low = scan.total
        /\ \A k \in 1..Len(scan.rows) : scan.rows[k].risk_level \in Tiers

\* an identifier that matches no product and one that does: two rows
C24_Witness ==
    /\ ScanCompleted
    /\ Len(scan.submitted) = 2
    /\ Len(scan.rows) = 2
    /\ ~ProductOf(scan.rows[1]).found
    /\ scan.rows[1].risk_level = "Red"
    /\ ProductOf(scan.rows[2]).found
    /\ scan.rows[2].risk_level = "Green"
    /\ scan.high = 1
    /\ scan.low = 1
    /\ scan.total = 2

\* C29 as stated: in every row of a scan the tier agrees with the reasons:
\* a row with the reason "Missing EPD file link" is not Green, and a row
\* whose reason is "EPD link is accessible; ..." is not Red or Yellow.
C29_AsStated ==
    ScanCompleted =>
        \A k \in 1..Len(scan.rows) :
            /\ InSeq(MissingLink, scan.rows[k].reasons) =>
                   scan.rows[k].risk_level # "Green"
            /\ scan.rows[k].reasons = <<Accessible>> =>
                   scan.rows[k].risk_level \notin {"Red", "Yellow"}

\* an EPD keyword occurs in the text fields or in the certificate names
EpdKeywordFound(p) ==
    /\ p.found
    /\ \/ _text_contains_any(combined_text(p), epd_keywords)
       \/ _text_contains_any(JoinWithSpace(cert_names(p.certifications)), epd_keywords)

\* the EPD link is a non-empty string of whitespace
BlankLink(p) ==
    /\ p.found
    /\ p.epd_url.t = "str"
    /\ p.epd_url.v # <<>>
    /\ IsBlankStr(p.epd_url.v)

\* C29 amended: a row whose reason is "EPD link is accessible; ..." is
\* Green; a row with the reason "Missing EPD file link" is Green exactly
\* when an EPD keyword is found in the product's text fields or certificate
\* names, or the product's EPD link is a non-empty string of whitespace,
\* and is Yellow or Red otherwise.
C29_TierAndReasons ==
    ScanCompleted =>
        \A k \in 1..Len(scan.rows) :
            LET row == scan.rows[k]
            IN  /\ row.reasons = <<Accessible>> => row.risk_level = "Green"
                /\ InSeq(MissingLink, row.reasons) =>
                       (row.risk_level = "Green" <=>
                            (EpdKeywordFound(ProductOf(row)) \/ BlankLink(ProductOf(row))))

\* a product with an EPD certificate and no link, and a product with a
\* blank link: both Green with the reason of a missing link
C29_Witness ==
    /\ ScanCompleted
    /\ Len(scan.rows) = 2
    /\ scan.rows[1].reasons = <<MissingLink>>
    /\ scan.rows[1].risk_level = "Green"
    /\ EpdKeywordFound(ProductOf(scan.rows[1]))
    /\ scan.rows[2].reasons = <<MissingLink>>
    /\ scan.rows[2].risk_level = "Green"
    /\ BlankLink(ProductOf(scan.rows[2]))

(***************************************************************************)
(* Claims about init_search_system                                         *)
(***************************************************************************)
\* the handler that is past init_search_system finds a usable system
UsableSystem ==
    /\ indexer # 0
    /\ search_engine # 0
    /\ indexer_objects[indexer].products_loaded

\* times the catalog file was loaded into an indexer object
CatalogWrites(objs) ==
    Cardinality({ <<i, k>> \in (1..Len(objs)) \X (1..MaxInitCalls * 2) :
                    k <= objs[i].loads })

\* each handler has called once and the catalog file was there
FirstCallsOnly == \A h \in Handlers : handlers[h].calls <= 1 /\ handlers[h].pc # "raised"

\* C25: when two handlers call init_search_system at the same time on a
\* fresh process, neither is past it while search_engine is None or the
\* catalog is not loaded, and the catalog is loaded by one writer only.
C25_ConcurrentInitSafe ==
    FirstCallsOnly =>
        /\ \A h \in Handlers : PastInit(h) => UsableSystem
        /\ Len(indexer_objects) <= 1
        /\ CatalogWrites(indexer_objects) <= 1

\* one handler calls, any number of times
OneHandler == handlers[2] = NotCalled

\* C28: in any sequence of calls, with the catalog file missing in some of
\* them, a call that returns normally leaves indexer None or a usable
\* system, and a call that raised leaves indexer None, so that the next
\* call initialises again.
C28_FailedInitRetried ==
    OneHandler =>
        /\ PastInit(1) => (indexer = 0 \/ UsableSystem)
        /\ handlers[1].pc = "raised" => indexer = 0

(***************************************************************************)
(* Claims about the catalog during requests                                *)
(***************************************************************************)
Augmentations == {"similarity_score", "llm_rank", "llm_relevance", "llm_explanation"}

Canonical(p) == DOMAIN p \cap Augmentations = {}

FragmentEvents == [k \in 1..calls.fragments |-> ContentEvent("delta")]

\* C30: when the chat completion fails in a streaming chat, at the call or
\* after some fragments, the client has received the start event, the
\* fragments delivered so far, then one apology text and, once the stream
\* is closed, the done event; no error event is sent and nothing but done
\* follows the apology.
C30_ApologyThenDone ==
    (request.kind = "chat" /\ calls.failed = "chat") =>
        /\ pc \in {"finishing", "closed"}
        /\ events = <<StartEvent>> \o FragmentEvents \o <<ContentEvent(Apology)>>
                        \o (IF pc = "closed" THEN <<DoneEvent>> ELSE <<>>)
        /\ \A k \in 1..Len(events) : events[k].type # "error"

\* the provider delivered two fragments and an empty chunk, then failed
C30_Witness ==
    /\ pc = "closed"
    /\ calls.failed = "chat"
    /\ calls.fragments = 2
    /\ calls.chunks = 3
    /\ events = <<StartEvent, ContentEvent("delta"), ContentEvent("delta"),
                  ContentEvent(Apology), DoneEvent>>

(***************************************************************************)
(* Claims about the lists evaluate_product returns                         *)
(***************************************************************************)
\* C27: whatever the product mapping holds, the reasons list that
\* evaluate_product returns has exactly one entry and the advisories list is
\* exactly the one standing note, in the Red branch and in the four
\* branches of a present link.
C27_OneReasonOneAdvisory ==
    (evalCalls > 0 /\ evalResult.exc = "none") =>
        /\ Len(evalResult.reasons) = 1
        /\ evalResult.reasons[1] \in
               {MissingLink, RelativeNoDate, RelativePath, NoIssueDate, Accessible}
        /\ evalResult.advisories = <<ManualAdvisory>>

\* a relative link without an issue date: one reason, the standing note
C27_Witness ==
    /\ evalCalls > 0
    /\ evalResult.exc = "none"
    /\ evalResult.reasons = <<RelativeNoDate>>
    /\ evalResult.advisories = <<ManualAdvisory>>
    /\ product.epd_url.t = "str"
    /\ ~has_issue_date(OrNone(Get(product.epd_issue_date)))

(***************************************************************************)
(* Claims about pagination                                                 *)
(***************************************************************************)
\* the 1-based positions of the answered list that page p of size n holds
PagePositions(p, n, total) ==
    { i \in 1..total : (p - 1) * n + 1 <= i /\ i <= Min(p * n, total) }

\* the items at those positions, in order
PageItems(list, p, n) ==
    [k \in 1..Cardinality(PagePositions(p, n, Len(list))) |-> list[(p - 1) * n + k]]

\* C21: in a 200 response of /api/search, total_pages is ceil(total /
\* per_page); the page holds exactly the items at positions
\* (page-1)*per_page+1 .. min(page*per_page, total) of the list, in order;
\* the pages 1..total_pages hold every item exactly once; a page beyond
\* total_pages is empty and is answered without error.
C21_Pagination ==
    (pc = "done" /\ request.kind = "search" /\ response.status = 200) =>
        LET n == response.per_page
            p == response.page
            total == response.total
            list == response.search_results
        IN  /\ total = Len(list)
            /\ response.total_pages * n >= total
            /\ (response.total_pages - 1) * n < total \/ (total = 0 /\ response.total_pages = 0)
            /\ response.total_pages >= 0
            /\ response.results = PageItems(list, p, n)
            /\ response.count = Len(response.results)
            /\ \A i \in 1..total :
                   Cardinality({ q \in 1..response.total_pages :
                                   i \in PagePositions(q, n, total) }) = 1
            /\ \A q \in 1..response.total_pages :
                   Slice(list, (q - 1) * n, (q - 1) * n + n) = PageItems(list, q, n)
            /\ p > response.total_pages =>
                   (response.results = <<>> /\ response.error = "none")

\* 97 products listed 50 to a page: page 2 of 2 holds items 51 to 97
C21_Witness ==
    /\ pc = "done"
    /\ Strip(request.query) = <<>>
    /\ response.status = 200
    /\ response.total = 97
    /\ response.per_page = 50
    /\ response.page = 2
    /\ response.total_pages = 2
    /\ Len(response.results) = 47
    /\ response.results[1] = response.search_results[51]
    /\ response.results[47] = response.search_results[97]

====
